---- MODULE Spec2Model ----
(***************************************************************************)
(* Model of the RAG / chat-security core of the Study Bud backend:         *)
(*   utils/security_guards.py      ChatSecurityGuard, RateLimiter          *)
(*   apps/ai_assistant/views.py    AIAssistantViewSet.chat                 *)
(*   apps/resources/rag_pipeline.py DocumentProcessor, EmbeddingGenerator, *)
(*                                 RAGRetriever, StudyPlanGenerator,       *)
(*                                 RAGPipeline                             *)
(*   apps/resources/course_rag_extension.py  CourseRAGExtension            *)
(*   apps/resources/views.py       ResourceViewSet.generate_study_plan     *)
(*                                                                         *)
(* Texts are sequences of words (one blank between two words); a regular   *)
(* expression of the source is a sequence of word alternatives that must   *)
(* match consecutive words.  Time is time.time() in seconds.  The texts    *)
(* given to the chunker are sequences of runs <<c, n>>, the character c    *)
(* repeated n times, with lengths and slices counted in characters.        *)
(***************************************************************************)
EXTENDS Integers, Sequences, FiniteSets, TLC

VARIABLES
    now,            \* time.time(), seconds
    _requests,      \* RateLimiter._requests: user id -> list of timestamps
    log,            \* history: the is_allowed calls made, [user, t, ok]
    guard_in,       \* argument of the guard function under test
    guard_out,      \* its result, NoResult before the call
    thread,         \* per thread inside is_allowed: its position and locals
    chunks,         \* the DocumentChunk table, in insertion order
    query,          \* arguments of the last retrieve_relevant_chunks call
    results,        \* the list it returned
    pc,             \* position of the request being served
    req,            \* its local variables
    llm_prompt,     \* the prompt sent to the LLM for it, NoResult if none
    response,       \* the response returned to the caller, NoResult if none
    chunk_in,       \* arguments of intelligent_chunk_text under test
    chunk_out,      \* [returned |-> its list of chunks], NoResult before the call
    ingest,         \* the ingestion call in progress: position and locals
    owner,          \* the quiz / assignment file / course topic being ingested
    gen,            \* the plan generation call in progress
    plans,          \* the StudyPlan table, in insertion order
    run,            \* number of the running Python process
    str_hash,       \* hash() of the strings in that process
    parsed,         \* history: the _parse_ai_response calls made
    files,          \* CourseQuiz, CourseAssignmentFile and CourseTopic rows
    documents,      \* the Document table, in insertion order
    knowledge_nodes,\* the KnowledgeNode table, in insertion order
    assignments     \* the Assignment table, in insertion order

rateVars  == <<now, _requests, log>>
guardVars == <<guard_in, guard_out>>
raceVars  == <<thread>>
searchVars == <<chunks, query, results>>
chatVars  == <<pc, req, llm_prompt, response>>
chunkerVars == <<chunk_in, chunk_out>>
ingestVars == <<ingest, owner>>
planVars  == <<gen, plans>>
parseVars == <<run, str_hash, parsed>>
courseVars == <<files, documents, knowledge_nodes, assignments>>
extVars   == <<parseVars, courseVars>>
ragVars   == <<chunkerVars, ingestVars, planVars, extVars>>
vars == <<now, _requests, log, guard_in, guard_out, thread,
          chunks, query, results, pc, req, llm_prompt, response,
          chunk_in, chunk_out, ingest, owner, gen, plans,
          run, str_hash, parsed, files, documents, knowledge_nodes,
          assignments>>

NoResult == [none |-> TRUE]

(***************************************************************************)
(* Bounds of the model                                                     *)
(***************************************************************************)
MaxWords == 3          \* words in a user message

(***************************************************************************)
(* Words and their character counts                                        *)
(***************************************************************************)
\* "a*6000" stands for one run of 6000 letters, "#$%!" for four punctuation
\* characters; the other words are themselves.
Vocabulary ==
    {"explain", "exploit", "password", "algorithm", "course",
     "new", "role", "#$%!", "a*6000"}

BlobLen == 6000

WordLen(w) ==
    CASE w = "explain"   -> 7
      [] w = "exploit"   -> 7
      [] w = "password"  -> 8
      [] w = "algorithm" -> 9
      [] w = "course"    -> 6
      [] w = "new"       -> 3
      [] w = "role"      -> 4
      [] w = "#$%!"      -> 4
      [] w = "a*6000"    -> BlobLen
      [] w = "answer"    -> 6
      [] w = "<b>"       -> 3
      [] w = "system"    -> 6
      [] w = "prompt"    -> 6
      [] w = "~~~code~~~" -> 10
      [] w = "[Code block removed for security]" -> 33
      [] OTHER           -> 6

\* number of characters of w matched by [^\w\s]
WordSpecials(w) == IF w = "#$%!" THEN 4 ELSE 0

RECURSIVE SumWords(_, _)
SumWords(f(_), text) ==
    IF text = <<>> THEN 0 ELSE f(Head(text)) + SumWords(f, Tail(text))

\* len(text): the words and the single blanks between them
TextLen(text) ==
    IF text = <<>> THEN 0
    ELSE LET WL(w) == WordLen(w) IN SumWords(WL, text) + (Len(text) - 1)

\* len(re.findall(r'[^\w\s]', text))
SpecialCount(text) == LET WS(w) == WordSpecials(w) IN SumWords(WS, text)

Messages == UNION {[1..n -> Vocabulary] : n \in 0..MaxWords}

(***************************************************************************)
(* ChatSecurityGuard.validate_message                                      *)
(***************************************************************************)
\* re.search(pattern, text): some run of consecutive words matches
re_search(pattern, text) ==
    \E i \in 1..Len(text) :
        /\ i + Len(pattern) - 1 <= Len(text)
        /\ \A k \in 1..Len(pattern) : text[i + k - 1] \in pattern[k]

\* The word-level patterns of INJECTION_PATTERNS (all are (?i), unanchored).
INJECTION_PATTERNS ==
    << << {"ignore", "forget", "disregard"}, {"previous", "above", "all"},
          {"instruction", "instructions", "prompt", "prompts", "rule", "rules"} >>,
       << {"system", "admin", "root", "developer"},
          {"prompt", "instruction", "command", "override"} >>,
       << {"act"}, {"as"}, {"admin", "root", "system", "developer", "hacker"} >>,
       << {"change", "switch", "modify"}, {"your", "the"},
          {"role", "persona", "character", "identity"} >>,
       << {"new"}, {"role", "persona", "character", "identity",
                    "instruction", "instructions"} >>,
       << {"execute", "run", "eval", "exec"},
          {"code", "command", "script", "function"} >>,
       << {"bypass", "override", "disable"},
          {"security", "safety", "filter", "guard"} >>,
       << {"jailbreak", "escape", "hack", "exploit"} >>,
       << {"break"}, {"free"} >> >>

SUSPICIOUS_KEYWORDS ==
    {"password", "secret", "token", "api_key", "private_key", "credential",
     "hack", "exploit", "vulnerability", "backdoor", "malware", "virus",
     "phishing", "social_engineering", "privilege_escalation",
     "sql_injection", "xss", "csrf", "rce", "lfi", "rfi"}

EDUCATIONAL_KEYWORDS ==
    {"study", "learn", "education", "academic", "course", "assignment",
     "quiz", "exam", "homework", "research", "topic", "subject",
     "mathematics", "science", "history", "literature", "programming",
     "algorithm", "data_structure", "computer_science", "physics",
     "chemistry", "biology", "engineering", "statistics"}

MaxMessageLen == 5000

\* sum(1 for keyword in keywords if keyword in message_lower)
keyword_count(keywords, message) ==
    Cardinality({kw \in keywords : \E i \in 1..Len(message) : message[i] = kw})

MSG_INVALID  == <<"Invalid message format">>
MSG_TOO_LONG == <<"Message too long. Please keep messages under 5000 characters.">>
MSG_HARMFUL  == <<"Your message contains potentially harmful content. Please rephrase your question about academic topics.">>
MSG_SPECIAL  == <<"Your message contains too many special characters. Please use plain text.">>
MSG_ACADEMIC == <<"I'm designed to help with academic and educational topics. Please ask questions related to your studies.">>
None == <<"None">>

validate_message(message) ==
    IF message = <<>> THEN [ok |-> FALSE, error |-> MSG_INVALID]
    ELSE IF TextLen(message) > MaxMessageLen
        THEN [ok |-> FALSE, error |-> MSG_TOO_LONG]
    ELSE IF \E p \in 1..Len(INJECTION_PATTERNS) :
                re_search(INJECTION_PATTERNS[p], message)
        THEN [ok |-> FALSE, error |-> MSG_HARMFUL]
    ELSE IF 10 * SpecialCount(message) > 3 * TextLen(message)
        THEN [ok |-> FALSE, error |-> MSG_SPECIAL]
    ELSE IF /\ keyword_count(SUSPICIOUS_KEYWORDS, message) > 0
            /\ keyword_count(EDUCATIONAL_KEYWORDS, message) = 0
        THEN [ok |-> FALSE, error |-> MSG_ACADEMIC]
    ELSE [ok |-> TRUE, error |-> None]

(***************************************************************************)
(* ChatSecurityGuard.validate_response                                     *)
(***************************************************************************)
MaxRespWords == 2      \* words in an LLM reply

RespVocabulary == {"answer", "<b>", "~~~code~~~", "system", "prompt", "a*6000"}
LLMOutputs == UNION {[1..n -> RespVocabulary] : n \in 0..MaxRespWords}

MaxResponseLen == 10000

CODE_REMOVED == "[Code block removed for security]"
TRUNCATED    == "... [Response truncated for length]"
MSG_NO_RESPONSE == <<"I apologize, but I couldn't generate a proper response. Please try again.">>
MSG_REPHRASE    == <<"I apologize, but I need to rephrase my response. How can I help you with your studies?">>

\* words matched by <[^>]+>
IsTag(w) == w = "<b>"
\* words matched by the fenced-code-block pattern; ~~~code~~~ is one block
IsCodeBlock(w) == w = "~~~code~~~"

\* text[:n]: the words that fit, a word cut by the limit becomes "a*cut"
RECURSIVE Slice(_, _)
Slice(text, n) ==
    IF text = <<>> \/ n <= 0 THEN <<>>
    ELSE IF WordLen(Head(text)) <= n
         THEN <<Head(text)>> \o Slice(Tail(text), n - WordLen(Head(text)) - 1)
         ELSE <<"a*cut">>

system_patterns ==
    << << {"system", "admin", "root", "developer"},
          {"prompt", "instruction", "command"} >>,
       << {"api", "database", "server", "system"},
          {"key", "password", "token", "credential"} >>,
       << {"internal"}, {"error", "system", "database"} >> >>

validate_response(response_text) ==
    IF response_text = <<>> THEN [ok |-> FALSE, text |-> MSG_NO_RESPONSE]
    ELSE
      LET noTags == SelectSeq(response_text, LAMBDA w : ~IsTag(w))
          noCode == [i \in 1..Len(noTags) |->
                        IF IsCodeBlock(noTags[i]) THEN CODE_REMOVED ELSE noTags[i]]
          cut    == IF TextLen(noCode) > MaxResponseLen
                    THEN Slice(noCode, MaxResponseLen) \o <<TRUNCATED>>
                    ELSE noCode
      IN  IF \E p \in 1..Len(system_patterns) : re_search(system_patterns[p], cut)
          THEN [ok |-> FALSE, text |-> MSG_REPHRASE]
          ELSE [ok |-> TRUE, text |-> cut]

\* create_safe_prompt: the message goes into the STUDENT QUESTION slot (the
\* words of the model hold no quote character to escape)
create_safe_prompt(message) == [question |-> message]

(***************************************************************************)
(* RateLimiter.is_allowed                                                  *)
(***************************************************************************)
Users == {1, 2}

ChatMaxRequests   == 3     \* max_requests of the chat endpoint, scaled from 30
ChatWindowMinutes == 1     \* window_minutes of the chat endpoint, scaled from 60
SecondsPerMinute  == 60
ClockStep == 30            \* seconds the clock advances in one step
MaxTime   == ChatWindowMinutes * SecondsPerMinute + 2 * ClockStep
MaxCalls  == ChatMaxRequests + 2   \* is_allowed calls recorded in log
MaxThreads == 2                    \* request threads inside is_allowed at once
Threads == 1..MaxThreads
MaxRaceCalls == ChatMaxRequests + 1   \* calls made by the threads together

\* cls._requests[user_id] when present
requests_of(requests, user_id) ==
    IF user_id \in DOMAIN requests THEN requests[user_id] ELSE <<>>

\* a variant that appends the timestamp before it checks the count
is_allowed_append_first(requests, user_id, current_time, max_requests, window_minutes) ==
    LET window_start == current_time - (window_minutes * SecondsPerMinute)
        kept == SelectSeq(requests_of(requests, user_id),
                          LAMBDA req_time : req_time > window_start)
    IN  [allowed  |-> Len(kept) < max_requests,
         requests |-> (user_id :> Append(kept, current_time)) @@ requests]

\* a variant that never drops the expired entries
is_allowed_no_prune(requests, user_id, current_time, max_requests, window_minutes) ==
    LET kept == requests_of(requests, user_id)
    IN  IF Len(kept) >= max_requests
        THEN [allowed |-> FALSE, requests |-> (user_id :> kept) @@ requests]
        ELSE [allowed |-> TRUE,
              requests |-> (user_id :> Append(kept, current_time)) @@ requests]

\* the value returned and the value of cls._requests after the call
is_allowed(requests, user_id, current_time, max_requests, window_minutes) ==
    LET window_start == current_time - (window_minutes * SecondsPerMinute)
        kept == SelectSeq(requests_of(requests, user_id),
                          LAMBDA req_time : req_time > window_start)
    IN  IF Len(kept) >= max_requests
        THEN [allowed |-> FALSE, requests |-> (user_id :> kept) @@ requests]
        ELSE [allowed |-> TRUE,
              requests |-> (user_id :> Append(kept, current_time)) @@ requests]

\* the clock advances
Tick ==
    /\ now + ClockStep <= MaxTime
    /\ now' = now + ClockStep
    /\ UNCHANGED <<_requests, log, guardVars, raceVars, searchVars, chatVars, ragVars>>

\* one sequential call is_allowed(user_id, N, W)
RateCall(user_id) ==
    /\ Len(log) < MaxCalls
    /\ LET r == is_allowed(_requests, user_id, now,
                           ChatMaxRequests, ChatWindowMinutes)
       IN  /\ _requests' = r.requests
           /\ log' = Append(log, [user |-> user_id, t |-> now, ok |-> r.allowed])
    /\ UNCHANGED <<now, guardVars, raceVars, searchVars, chatVars, ragVars>>

RateIdle ==
    /\ now = 0
    /\ _requests = <<>>
    /\ log = <<>>

GuardIdle ==
    /\ guard_in = <<>>
    /\ guard_out = NoResult

NoRequest == [user_id |-> 0]

ChatIdle ==
    /\ pc = "idle"
    /\ req = NoRequest
    /\ llm_prompt = NoResult
    /\ response = NoResult

RaceIdle == thread = [th \in Threads |-> [pc |-> "idle"]]

SearchIdle ==
    /\ chunks = <<>>
    /\ query = NoResult
    /\ results = <<>>

ChunkerIdle ==
    /\ chunk_in = NoResult
    /\ chunk_out = NoResult

NoOwner == [is_processed |-> FALSE, processing_error |-> <<>>]

IngestIdle ==
    /\ ingest = [pc |-> "idle"]
    /\ owner = NoOwner

PlanIdle ==
    /\ gen = [pc |-> "idle"]
    /\ plans = <<>>

ParseIdle ==
    /\ run = 0
    /\ str_hash = <<>>
    /\ parsed = <<>>

CourseIdle ==
    /\ files = <<>>
    /\ documents = <<>>
    /\ knowledge_nodes = <<>>
    /\ assignments = <<>>

ExtIdle == ParseIdle /\ CourseIdle

RagIdle == ChunkerIdle /\ IngestIdle /\ PlanIdle /\ ExtIdle

InitRate == RateIdle /\ GuardIdle /\ RaceIdle /\ SearchIdle /\ ChatIdle /\ RagIdle

NextRate ==
    \/ Tick
    \/ \E user_id \in Users : RateCall(user_id)

SpecRate == InitRate /\ [][NextRate]_vars

(***************************************************************************)
(* RateLimiter.is_allowed run by concurrent request threads.  The class    *)
(* attribute _requests is shared and the method takes no lock, so threads  *)
(* interleave between its statements.                                      *)
(***************************************************************************)
\* lines 284-285: current_time = time.time()
RaceEnter(th, user_id) ==
    /\ thread[th].pc = "idle"
    /\ Len(log) + Cardinality({o \in Threads : thread[o].pc # "idle"}) < MaxRaceCalls
    /\ thread' = [thread EXCEPT ![th] =
                    [pc |-> "prune", user_id |-> user_id, current_time |-> now,
                     kept |-> <<>>]]
    /\ UNCHANGED <<rateVars, guardVars, searchVars, chatVars, ragVars>>

\* lines 288-292, right-hand side: the list comprehension is evaluated
RacePruneRead(th) ==
    /\ thread[th].pc = "prune"
    /\ LET window_start == thread[th].current_time
                             - (ChatWindowMinutes * SecondsPerMinute)
       IN  thread' = [thread EXCEPT ![th].pc = "store",
                        ![th].kept = SelectSeq(requests_of(_requests, thread[th].user_id),
                                        LAMBDA req_time : req_time > window_start)]
    /\ UNCHANGED <<rateVars, guardVars, searchVars, chatVars, ragVars>>

\* lines 289 and 294: cls._requests[user_id] is assigned
RacePruneStore(th) ==
    /\ thread[th].pc = "store"
    /\ _requests' = (thread[th].user_id :> thread[th].kept) @@ _requests
    /\ thread' = [thread EXCEPT ![th].pc = "check"]
    /\ UNCHANGED <<now, log, guardVars, searchVars, chatVars, ragVars>>

\* lines 297-299: the count is compared with max_requests
RaceCheck(th) ==
    /\ thread[th].pc = "check"
    /\ IF Len(requests_of(_requests, thread[th].user_id)) >= ChatMaxRequests
       THEN /\ thread' = [thread EXCEPT ![th] = [pc |-> "idle"]]
            /\ log' = Append(log, [user |-> thread[th].user_id,
                                   t |-> thread[th].current_time, ok |-> FALSE])
       ELSE /\ thread' = [thread EXCEPT ![th].pc = "append"]
            /\ log' = log
    /\ UNCHANGED <<now, _requests, guardVars, searchVars, chatVars, ragVars>>

\* lines 302-303: the timestamp is appended and True returned
RaceAppend(th) ==
    /\ thread[th].pc = "append"
    /\ _requests' = [_requests EXCEPT ![thread[th].user_id] =
                        Append(@, thread[th].current_time)]
    /\ log' = Append(log, [user |-> thread[th].user_id,
                           t |-> thread[th].current_time, ok |-> TRUE])
    /\ thread' = [thread EXCEPT ![th] = [pc |-> "idle"]]
    /\ UNCHANGED <<now, guardVars, searchVars, chatVars, ragVars>>

InitRace == RateIdle /\ GuardIdle /\ RaceIdle /\ SearchIdle /\ ChatIdle /\ RagIdle

NextRace ==
    \/ Tick
    \/ \E th \in Threads, user_id \in Users : RaceEnter(th, user_id)
    \/ \E th \in Threads : RacePruneRead(th)
    \/ \E th \in Threads : RacePruneStore(th)
    \/ \E th \in Threads : RaceCheck(th)
    \/ \E th \in Threads : RaceAppend(th)

SpecRace == InitRace /\ [][NextRace]_vars

(***************************************************************************)
(* DocumentChunk store and RAGRetriever.retrieve_relevant_chunks           *)
(***************************************************************************)
MaxChunks == 3         \* rows of the DocumentChunk table
MaxTopK   == 2         \* largest top_k passed

Courses    == {1, 2}
ChunkTypes == {"text", "syllabus"}
Vectors    == {<<1, 0>>, <<0, 1>>, <<1, 1>>}      \* embeddings, not null
QueryVectors == {<<1, 0>>, <<1, 1>>}
Thresholds == {0, 70}                            \* similarity_threshold * 100

Dot(a, b)  == a[1] * b[1] + a[2] * b[2]
Norm2(a)   == Dot(a, a)

\* 1 - CosineDistance(a, q) >= threshold / 100, for vectors without a
\* negative component
similarity_gte(a, q, threshold) ==
    10000 * Dot(a, q) * Dot(a, q) >= threshold * threshold * Norm2(a) * Norm2(q)

\* similarity of a to q greater than the similarity of b to q
similarity_gt(a, b, q) ==
    Dot(a, q) * Dot(a, q) * Norm2(b) > Dot(b, q) * Dot(b, q) * Norm2(a)

\* DocumentChunk.objects.create: chunk_index counts the chunks of the course
StoreChunk(course_id, chunk_type, embedding) ==
    /\ Len(chunks) < MaxChunks
    /\ chunks' = Append(chunks,
          [id |-> Len(chunks) + 1, course_id |-> course_id,
           chunk_type |-> chunk_type, embedding |-> embedding,
           chunk_index |-> Cardinality({i \in 1..Len(chunks) :
                                           chunks[i].course_id = course_id})])
    /\ query' = NoResult      \* a list returned earlier is dropped
    /\ results' = <<>>
    /\ UNCHANGED <<rateVars, guardVars, raceVars, chatVars, ragVars>>

\* the orderings of the rows by descending similarity; rows of equal
\* similarity come in any order (order_by('-similarity') alone)
OrderedBySimilarity(rows, q) ==
    {perm \in [1..Cardinality(rows) -> rows] :
        /\ \A i, j \in 1..Cardinality(rows) : i # j => perm[i] # perm[j]
        /\ \A i, j \in 1..Cardinality(rows) :
              i < j => ~similarity_gt(chunks[perm[j]].embedding,
                                      chunks[perm[i]].embedding, q)}

Min(a, b) == IF a < b THEN a ELSE b

\* a variant whose queryset is not filtered by course
retrieve_relevant_chunks_all_courses(query_embedding, course_id, chunk_types, top_k, similarity_threshold) ==
    LET queryset == {i \in 1..Len(chunks) :
                        chunk_types # {} => chunks[i].chunk_type \in chunk_types}
        passing == {i \in queryset :
                        similarity_gte(chunks[i].embedding, query_embedding,
                                       similarity_threshold)}
    IN  {[k \in 1..Min(top_k, Cardinality(passing)) |-> chunks[perm[k]]] :
            perm \in OrderedBySimilarity(passing, query_embedding)}

\* the lists retrieve_relevant_chunks may return; chunk_types = {} is None
retrieve_relevant_chunks(query_embedding, course_id, chunk_types, top_k, similarity_threshold) ==
    LET byCourse == {i \in 1..Len(chunks) : chunks[i].course_id = course_id}
        queryset == IF chunk_types # {}
                    THEN {i \in byCourse : chunks[i].chunk_type \in chunk_types}
                    ELSE byCourse
        passing == {i \in queryset :
                        similarity_gte(chunks[i].embedding, query_embedding,
                                       similarity_threshold)}
    IN  {[k \in 1..Min(top_k, Cardinality(passing)) |-> chunks[perm[k]]] :
            perm \in OrderedBySimilarity(passing, query_embedding)}

\* one call; the list returned by the previous call has been consumed
Retrieve(query_embedding, course_id, chunk_types, top_k, similarity_threshold) ==
    /\ query = NoResult
    /\ query' = [query_embedding |-> query_embedding, course_id |-> course_id,
                 chunk_types |-> chunk_types, top_k |-> top_k,
                 similarity_threshold |-> similarity_threshold]
    /\ results' \in retrieve_relevant_chunks(query_embedding, course_id,
                        chunk_types, top_k, similarity_threshold)
    /\ UNCHANGED <<chunks, rateVars, guardVars, raceVars, chatVars, ragVars>>

ContextTopK == 15             \* top_k of retrieve_contextual_information
DefaultThreshold == 70        \* similarity_threshold = 0.7, times 100

\* the chunk search of retrieve_contextual_information: top_k is given,
\* chunk_types and similarity_threshold keep their defaults
RetrieveContext(query_embedding, course_id) ==
    /\ query = NoResult
    /\ query' = [query_embedding |-> query_embedding, course_id |-> course_id,
                 chunk_types |-> {}, top_k |-> ContextTopK,
                 similarity_threshold |-> DefaultThreshold]
    /\ results' \in retrieve_relevant_chunks(query_embedding, course_id,
                        {}, ContextTopK, DefaultThreshold)
    /\ UNCHANGED <<chunks, rateVars, guardVars, raceVars, chatVars, ragVars>>

InitSearch == RateIdle /\ GuardIdle /\ RaceIdle /\ SearchIdle /\ ChatIdle /\ RagIdle

NextSearch ==
    \/ \E course_id \in Courses, chunk_type \in ChunkTypes, embedding \in Vectors :
          StoreChunk(course_id, chunk_type, embedding)
    \/ \E query_embedding \in QueryVectors, course_id \in Courses,
          chunk_types \in {{}, {"text"}},
          top_k \in 1..MaxTopK, similarity_threshold \in Thresholds :
          Retrieve(query_embedding, course_id, chunk_types, top_k,
                   similarity_threshold)
    \/ \E query_embedding \in QueryVectors, course_id \in Courses :
          RetrieveContext(query_embedding, course_id)

SpecSearch == InitSearch /\ [][NextSearch]_vars

(***************************************************************************)
(* AIAssistantViewSet.chat, one request at a time                          *)
(***************************************************************************)
\* the payloads sent: one message for each outcome of the validation
ChatMessages ==
    { <<>>, <<"a*6000">>, <<"new", "role">>, <<"#$%!">>, <<"password">>,
      <<"explain", "course">>, <<"explain", "exploit", "course">>,
      <<"explain", "algorithm">> }

MaxSerializerLen == 2000     \* ChatRequestSerializer.message max_length

ChatUsers == {1}             \* request.user.id of the requests served

EXC == "str(e)"              \* the text of the exception that was caught
CHUNK == "chunk.content[:200]"

MSG_UNAVAILABLE == <<"I'm sorry, the AI service is currently unavailable. Please try again later.">>
MSG_TROUBLE     == <<"I'm sorry, I'm having trouble processing your request right now. Please try again in a moment.">>

\* lines 547-557: the handler of every exception that leaves the body
chat_failed == [status |-> 500, error |-> <<"Chat failed">>, details |-> <<EXC>>]

\* lines 357-368: the response for a message the guard rejected
blocked_response(message, error_message) ==
    [status |-> 200, response |-> error_message,
     last_message |-> message, service_used |-> "security_guard",
     rag_enhanced |-> FALSE, security_blocked |-> TRUE]

\* lines 334-345: RateLimiter.is_allowed(request.user.id, 30, 60)
ChatRateLimit(user_id) ==
    /\ pc = "idle"
    /\ LET r == is_allowed(_requests, user_id, now,
                           ChatMaxRequests, ChatWindowMinutes)
       IN  /\ _requests' = r.requests
           /\ llm_prompt' = NoResult
           /\ IF r.allowed
              THEN /\ pc' = "parse"
                   /\ req' = [user_id |-> user_id, admitted_at |-> now]
                   /\ response' = NoResult
              ELSE /\ pc' = "done"
                   /\ req' = NoRequest
                   /\ response' = [status |-> 429,
                                   error |-> <<"Rate limit exceeded">>,
                                   details |-> <<"Too many requests. Please wait before sending more messages.">>,
                                   retry_after |-> 3600]
    /\ UNCHANGED <<now, log, guardVars, raceVars, searchVars, ragVars>>

\* lines 346-351: ChatRequestSerializer; a payload it refuses raises
ChatParse(message, context_is_dict, course_id) ==
    /\ pc = "parse"
    /\ IF message # <<>> /\ TextLen(message) <= MaxSerializerLen
       THEN /\ pc' = "validate"
            /\ req' = [user_id |-> req.user_id, admitted_at |-> req.admitted_at,
                       message |-> message, context_is_dict |-> context_is_dict,
                       course_id |-> course_id]
            /\ response' = response
       ELSE /\ pc' = "done"
            /\ req' = req
            /\ response' = chat_failed
    /\ UNCHANGED <<llm_prompt, rateVars, guardVars, raceVars, searchVars, ragVars>>

\* a variant that gives the slot back when the message is rejected
ChatValidateMessage_rollback ==
    /\ pc = "validate"
    /\ LET v == validate_message(req.message)
       IN  IF v.ok
           THEN /\ pc' = "context"
                /\ UNCHANGED <<response, _requests>>
           ELSE /\ pc' = "done"
                /\ response' = blocked_response(req.message, v.error)
                /\ _requests' = [_requests EXCEPT ![req.user_id] =
                                    SubSeq(@, 1, Len(@) - 1)]
    /\ UNCHANGED <<req, llm_prompt, now, log, guardVars, raceVars, searchVars, ragVars>>

\* lines 353-368: ChatSecurityGuard.validate_message
ChatValidateMessage ==
    /\ pc = "validate"
    /\ LET v == validate_message(req.message)
       IN  IF v.ok
           THEN /\ pc' = "context"
                /\ response' = response
           ELSE /\ pc' = "done"
                /\ response' = blocked_response(req.message, v.error)
    /\ UNCHANGED <<req, llm_prompt, rateVars, guardVars, raceVars, searchVars, ragVars>>

\* lines 370-502: user and course context, then the RAG search; rag is what
\* the search gave: "chunks" (relevant chunks), "none" or "error" (it raised)
ChatRetrieveContext(rag) ==
    /\ pc = "context"
    /\ req.course_id = 0 => rag = "none"
    /\ pc' = "ai"
    /\ req' = [user_id |-> req.user_id, admitted_at |-> req.admitted_at,
               message |-> req.message, context_is_dict |-> req.context_is_dict,
               rag_enhanced |-> (rag = "chunks"),
               enhanced_message |-> IF rag = "chunks"
                                    THEN req.message \o <<CHUNK>>
                                    ELSE req.message]
    /\ UNCHANGED <<llm_prompt, response, rateVars, guardVars, raceVars, searchVars, ragVars>>

\* a variant that returns the reply of the LLM as it came
ChatCallAI_unvalidated(available, raises, llm) ==
    /\ pc = "ai"
    /\ (~available \/ raises) => llm = <<>>
    /\ pc' = "respond"
    /\ IF ~available
       THEN /\ llm_prompt' = llm_prompt
            /\ req' = [req EXCEPT !.enhanced_message = MSG_UNAVAILABLE] @@
                      [llm_raw |-> <<>>, source |-> "fixed", is_response_safe |-> TRUE]
       ELSE IF ~req.context_is_dict
       THEN /\ llm_prompt' = llm_prompt
            /\ req' = [req EXCEPT !.enhanced_message = MSG_TROUBLE] @@
                      [llm_raw |-> <<>>, source |-> "fixed", is_response_safe |-> TRUE]
       ELSE /\ llm_prompt' = create_safe_prompt(req.enhanced_message)
            /\ IF raises
               THEN req' = [req EXCEPT !.enhanced_message = MSG_TROUBLE] @@
                           [llm_raw |-> <<>>, source |-> "fixed", is_response_safe |-> TRUE]
               ELSE req' = [req EXCEPT !.enhanced_message = llm] @@
                           [llm_raw |-> llm, source |-> "llm", is_response_safe |-> TRUE]
    /\ UNCHANGED <<response, rateVars, guardVars, raceVars, searchVars, ragVars>>

\* lines 506-530: the call of the LLM and validate_response.  The call
\* raises, or returns the reply llm.  The field enhanced_message is reused
\* for response_text.
ChatCallAI(available, raises, llm) ==
    /\ pc = "ai"
    /\ (~available \/ raises) => llm = <<>>
    /\ pc' = "respond"
    /\ IF ~available
       THEN /\ llm_prompt' = llm_prompt
            /\ req' = [req EXCEPT !.enhanced_message = MSG_UNAVAILABLE] @@
                      [llm_raw |-> <<>>, source |-> "fixed", is_response_safe |-> TRUE]
       ELSE IF ~req.context_is_dict
       THEN \* {**context, **user_context} raises TypeError
            /\ llm_prompt' = llm_prompt
            /\ req' = [req EXCEPT !.enhanced_message = MSG_TROUBLE] @@
                      [llm_raw |-> <<>>, source |-> "fixed", is_response_safe |-> TRUE]
       ELSE /\ llm_prompt' = create_safe_prompt(req.enhanced_message)
            /\ IF raises
               THEN req' = [req EXCEPT !.enhanced_message = MSG_TROUBLE] @@
                           [llm_raw |-> <<>>, source |-> "fixed", is_response_safe |-> TRUE]
               ELSE LET v == validate_response(llm)
                    IN  req' = [req EXCEPT !.enhanced_message = v.text] @@
                               [llm_raw |-> llm, source |-> "llm",
                                is_response_safe |-> v.ok]
    /\ UNCHANGED <<response, rateVars, guardVars, raceVars, searchVars, ragVars>>

\* lines 532-545: response_data through ChatResponseSerializer, which keeps
\* the fields it declares; {**context, ...} raises when context is no dict
ChatRespond ==
    /\ pc = "respond"
    /\ pc' = "done"
    /\ response' = IF req.context_is_dict
                   THEN [status |-> 200, response |-> req.enhanced_message,
                         last_message |-> req.message, service_used |-> "openai"]
                   ELSE chat_failed
    /\ UNCHANGED <<req, llm_prompt, rateVars, guardVars, raceVars, searchVars, ragVars>>

\* RAGPipeline.answer_question_with_context, lines 821-913: the dict it
\* returns.  The body raises, or the LLM replies llm.
AnswerQuestion(raises, has_chunks, llm) ==
    /\ pc = "idle"
    /\ raises => (llm = <<>> /\ ~has_chunks)
    /\ pc' = "done"
    /\ req' = NoRequest
    /\ llm_prompt' = NoResult
    /\ response' =
          IF raises
          THEN [answer |-> <<"I apologize, but I encountered an error while processing your question:",
                             EXC,
                             "Please try rephrasing your question or contact support if the issue persists.">>,
                confidence |-> 10, context_used |-> FALSE,
                rag_context_used |-> FALSE]
          ELSE [answer |-> llm,
                confidence |-> IF has_chunks THEN 80 ELSE 30,
                context_used |-> has_chunks, rag_context_used |-> TRUE]
    /\ UNCHANGED <<rateVars, guardVars, raceVars, searchVars, ragVars>>

\* ResourceViewSet.generate_study_plan, lines 342-400: outcome is what the
\* body met: the plan ("created"), ImportError, Course.DoesNotExist or
\* another exception ("error")
GenerateStudyPlan(outcome) ==
    /\ pc = "idle"
    /\ pc' = "done"
    /\ req' = NoRequest
    /\ llm_prompt' = NoResult
    /\ response' =
          CASE outcome = "created" ->
                  [status |-> 201, success |-> TRUE, rag_context_used |-> TRUE]
            [] outcome = "import_error" ->
                  [status |-> 503, success |-> FALSE,
                   error |-> <<"AI features not available - missing dependencies">>,
                   details |-> <<"Please install required AI packages (openai, pgvector)">>]
            [] outcome = "no_course" ->
                  [status |-> 404,
                   error |-> <<"Course not found or you do not have access to it">>]
            [] outcome = "error" ->
                  [status |-> 500, success |-> FALSE,
                   error |-> <<"Failed to generate study plan">>,
                   details |-> <<EXC>>]
    /\ UNCHANGED <<rateVars, guardVars, raceVars, searchVars, ragVars>>

\* the response has been sent; the worker takes the next request
Return ==
    /\ pc = "done"
    /\ pc' = "idle"
    /\ req' = NoRequest
    /\ llm_prompt' = NoResult
    /\ response' = NoResult
    /\ UNCHANGED <<rateVars, guardVars, raceVars, searchVars, ragVars>>

InitChat == RateIdle /\ GuardIdle /\ RaceIdle /\ SearchIdle /\ ChatIdle /\ RagIdle

Next ==
    \/ Tick
    \/ \E user_id \in ChatUsers : ChatRateLimit(user_id)
    \/ /\ pc = "parse"
       /\ \E message \in ChatMessages, context_is_dict \in BOOLEAN,
             course_id \in {0} \cup Courses :
             ChatParse(message, context_is_dict, course_id)
    \/ ChatValidateMessage
    \/ \E rag \in {"chunks", "none", "error"} : ChatRetrieveContext(rag)
    \/ /\ pc = "ai"
       /\ \E available \in BOOLEAN, raises \in BOOLEAN, llm \in LLMOutputs :
             ChatCallAI(available, raises, llm)
    \/ ChatRespond
    \/ /\ pc = "idle"
       /\ \E raises \in BOOLEAN, has_chunks \in BOOLEAN, llm \in LLMOutputs :
             AnswerQuestion(raises, has_chunks, llm)
    \/ \E outcome \in {"created", "import_error", "no_course", "error"} :
          GenerateStudyPlan(outcome)
    \/ Return

Init == InitChat

Spec == Init /\ [][Next]_vars

(***************************************************************************)
(* Specification of the guard functions: the argument is drawn in Init     *)
(***************************************************************************)
GuardValidateMessage ==
    /\ guard_out = NoResult
    /\ guard_out' = validate_message(guard_in)
    /\ UNCHANGED <<guard_in, rateVars, raceVars, searchVars, chatVars, ragVars>>

InitGuard ==
    /\ guard_in \in Messages
    /\ guard_out = NoResult
    /\ RateIdle
    /\ RaceIdle
    /\ SearchIdle
    /\ ChatIdle
    /\ RagIdle

NextGuard == GuardValidateMessage

SpecGuard == InitGuard /\ [][NextGuard]_vars

(***************************************************************************)
(* DocumentProcessor.intelligent_chunk_text                                *)
(*                                                                         *)
(* Here a text is a sequence of runs <<c, n>>, the character c repeated n  *)
(* times, no two adjacent runs of the same character; len(), strip(),      *)
(* slicing and concatenation work on characters.                           *)
(***************************************************************************)
MaxSentences == 3      \* sentences of an input text

MinParagraphLen  == 50       \* len(p.strip()) > 50
MinSentenceLen   == 20       \* len(s.strip()) > 20
ParagraphCap     == 500      \* len(current_para) + len(sentence) < 500
DefaultChunkSize == 1000
DefaultOverlap   == 200
CourseChunkSize  == 1500     \* chunk_size of the course file paths

Run(c, n) == <<c, n>>
IsSpace(c) == c \in {" ", "\n"}
IsPunct(c) == c \in {".", "!", "?"}

RECURSIVE StrLen(_)
StrLen(s) == IF s = <<>> THEN 0 ELSE s[1][2] + StrLen(Tail(s))

\* s + t
Cat(s, t) ==
    IF s = <<>> THEN t
    ELSE IF t = <<>> THEN s
    ELSE IF s[Len(s)][1] = t[1][1]
         THEN SubSeq(s, 1, Len(s) - 1)
                 \o <<Run(t[1][1], s[Len(s)][2] + t[1][2])>> \o Tail(t)
         ELSE s \o t

RECURSIVE lstrip(_)
lstrip(s) == IF s # <<>> /\ IsSpace(s[1][1]) THEN lstrip(Tail(s)) ELSE s

RECURSIVE rstrip(_)
rstrip(s) ==
    IF s # <<>> /\ IsSpace(s[Len(s)][1])
    THEN rstrip(SubSeq(s, 1, Len(s) - 1))
    ELSE s

strip(s) == rstrip(lstrip(s))

\* re.sub(r'\s+', ' ', s)
RECURSIVE sub_spaces(_)
sub_spaces(s) ==
    IF s = <<>> THEN <<>>
    ELSE IF IsSpace(s[1][1])
         THEN <<Run(" ", 1)>> \o sub_spaces(lstrip(s))
         ELSE Cat(<<s[1]>>, sub_spaces(Tail(s)))

\* s[:n], n >= 0
RECURSIVE first_chars(_, _)
first_chars(s, n) ==
    IF s = <<>> \/ n <= 0 THEN <<>>
    ELSE IF s[1][2] >= n THEN <<Run(s[1][1], n)>>
         ELSE <<s[1]>> \o first_chars(Tail(s), n - s[1][2])

\* the last n characters of s, n >= 0
RECURSIVE last_chars(_, _)
last_chars(s, n) ==
    IF s = <<>> \/ n <= 0 THEN <<>>
    ELSE IF s[Len(s)][2] >= n THEN <<Run(s[Len(s)][1], n)>>
         ELSE last_chars(SubSeq(s, 1, Len(s) - 1), n - s[Len(s)][2])
                 \o <<s[Len(s)]>>

\* s[-n:], n >= 0: -0 is 0, so s[-0:] is all of s
neg_slice(s, n) == IF n = 0 THEN s ELSE last_chars(s, n)

startswith(s, prefix) == first_chars(s, StrLen(prefix)) = prefix

\* s.split(c * k), with piece the characters read since the last separator
RECURSIVE split(_, _, _, _)
split(s, c, k, piece) ==
    IF s = <<>> THEN <<piece>>
    ELSE IF s[1][1] = c /\ s[1][2] >= k
         THEN <<piece>>
                 \o [i \in 1..((s[1][2] \div k) - 1) |-> <<>>]
                 \o split(Tail(s), c, k,
                          IF s[1][2] % k = 0 THEN <<>>
                          ELSE <<Run(c, s[1][2] % k)>>)
         ELSE split(Tail(s), c, k, Cat(piece, <<s[1]>>))

RECURSIVE lstrip_punct(_)
lstrip_punct(s) ==
    IF s # <<>> /\ IsPunct(s[1][1]) THEN lstrip_punct(Tail(s)) ELSE s

\* re.split(r'[.!?]+', s)
RECURSIVE re_split_sentences(_, _)
re_split_sentences(s, piece) ==
    IF s = <<>> THEN <<piece>>
    ELSE IF IsPunct(s[1][1])
         THEN <<piece>> \o re_split_sentences(lstrip_punct(s), <<>>)
         ELSE re_split_sentences(Tail(s), Cat(piece, <<s[1]>>))

\* [p.strip() for p in pieces if p.strip() and len(p.strip()) > min_len]
strip_and_filter(pieces, min_len) ==
    LET keep(p) == p # <<>> /\ StrLen(p) > min_len
    IN  SelectSeq([i \in 1..Len(pieces) |-> strip(pieces[i])], keep)

DotSpace == <<Run(".", 1), Run(" ", 1)>>

\* lines 115-124: the loop that groups the sentences, and what follows it
RECURSIVE group_sentences(_, _, _)
group_sentences(sentences, current_para, initial_split) ==
    IF sentences = <<>>
    THEN IF strip(current_para) # <<>>
         THEN Append(initial_split, strip(current_para))
         ELSE initial_split
    ELSE LET sentence == Head(sentences)
         IN  IF StrLen(current_para) + StrLen(sentence) < ParagraphCap
             THEN group_sentences(Tail(sentences),
                      Cat(current_para, Cat(sentence, DotSpace)), initial_split)
             ELSE group_sentences(Tail(sentences), Cat(sentence, DotSpace),
                      IF strip(current_para) # <<>>
                      THEN Append(initial_split, strip(current_para))
                      ELSE initial_split)

\* len(s.split())
RECURSIVE word_count(_)
word_count(s) ==
    IF s = <<>> THEN 0
    ELSE (IF IsSpace(s[1][1]) THEN 0
          ELSE IF Len(s) > 1 /\ ~IsSpace(s[2][1]) THEN 0 ELSE 1)
         + word_count(Tail(s))

\* the dict appended to chunks; the fields of _analyze_chunk_content, which
\* reads the words of the content, are left out
chunk_dict(current_chunk, chunk_index) ==
    [content |-> current_chunk, chunk_index |-> chunk_index,
     word_count |-> word_count(current_chunk)]

\* lines 97-126
paragraphs_of(raw) ==
    LET text == sub_spaces(strip(raw))
        split1 == strip_and_filter(split(text, "\n", 2, <<>>), 0)
        split2 == IF Len(split1) <= 1
                  THEN strip_and_filter(split(text, "\n", 1, <<>>),
                                        MinParagraphLen)
                  ELSE split1
    IN  IF Len(split2) <= 1
        THEN group_sentences(
                 strip_and_filter(re_split_sentences(text, <<>>),
                                  MinSentenceLen),
                 <<>>, split2)
        ELSE split2

\* a variant that carries nothing over into the next chunk
overlap_text_dropped(current_chunk, overlap) == <<>>

\* line 148
overlap_text(current_chunk, overlap) ==
    IF StrLen(current_chunk) > overlap
    THEN neg_slice(current_chunk, overlap)
    ELSE current_chunk

\* lines 128-166: the loop over the paragraphs and the last chunk
RECURSIVE pack(_, _, _, _, _, _)
pack(paragraphs, chunk_size, overlap, current_chunk, chunk_index, chunks_) ==
    IF paragraphs = <<>>
    THEN IF current_chunk # <<>>
         THEN Append(chunks_, chunk_dict(current_chunk, chunk_index))
         ELSE chunks_
    ELSE LET paragraph == Head(paragraphs)
         IN  IF StrLen(current_chunk) + StrLen(paragraph) > chunk_size
                /\ current_chunk # <<>>
             THEN pack(Tail(paragraphs), chunk_size, overlap,
                       Cat(overlap_text(current_chunk, overlap),
                           Cat(<<Run(" ", 1)>>, paragraph)),
                       chunk_index + 1,
                       Append(chunks_, chunk_dict(current_chunk, chunk_index)))
             ELSE pack(Tail(paragraphs), chunk_size, overlap,
                       IF current_chunk # <<>>
                       THEN Cat(current_chunk, Cat(<<Run(" ", 1)>>, paragraph))
                       ELSE paragraph,
                       chunk_index, chunks_)

intelligent_chunk_text(text, chunk_size, overlap) ==
    pack(paragraphs_of(text), chunk_size, overlap, <<>>, 0, <<>>)

\* the input texts: sentences of one word, joined by white space
SentenceWords == {10, 30, 250}                  \* letters of the word
Terminators == {".", "!"}
Separators == {Run(" ", 1), Run("\n", 1), Run("\n", 2)}

\* every word length closed by a full stop, and one sentence closed by each
\* other terminator
Sentences ==
    {<<Run("a", n), Run(".", 1)>> : n \in SentenceWords}
        \cup {<<Run("a", 30), Run(t, 1)>> : t \in Terminators}

RECURSIVE TextsOf(_)
TextsOf(n) ==
    IF n = 1 THEN Sentences
    ELSE {text \o <<sep>> \o sentence :
             text \in TextsOf(n - 1), sep \in Separators, sentence \in Sentences}

Texts == {<<>>, <<Run(" ", 1)>>, <<Run("a", 10)>>, <<Run("a", 700)>>}
            \cup UNION {TextsOf(n) : n \in 1..MaxSentences}

ChunkSizes == {150, DefaultChunkSize, CourseChunkSize}
Overlaps == {0, DefaultOverlap}

ChunkText ==
    /\ chunk_out = NoResult
    /\ chunk_out' = [returned |->
                        intelligent_chunk_text(chunk_in.text,
                            chunk_in.chunk_size, chunk_in.overlap)]
    /\ UNCHANGED <<chunk_in, ingestVars, planVars, rateVars, guardVars,
                   raceVars, searchVars, chatVars, extVars>>

InitChunker ==
    /\ chunk_in \in [text : Texts, chunk_size : ChunkSizes, overlap : Overlaps]
    /\ chunk_out = NoResult
    /\ IngestIdle
    /\ PlanIdle
    /\ RateIdle
    /\ GuardIdle
    /\ RaceIdle
    /\ SearchIdle
    /\ ChatIdle
    /\ ExtIdle

NextChunker == ChunkText

SpecChunker == InitChunker /\ [][NextChunker]_vars

(***************************************************************************)
(* EmbeddingGenerator.generate_embedding and the ingestion paths:          *)
(* RAGPipeline.process_uploaded_resource, CourseRAGExtension               *)
(* .process_course_quiz, .process_course_assignment, .process_course_topics *)
(***************************************************************************)
EmbeddingDim    == 1536      \* [0.0] * 1536, VectorField(dimensions=1536)
MaxEmbedChars   == 8000      \* cleaned_text[:8000]
MinContentLen   == 100       \* len(content.strip()) < 100
MinChunkLen     == 50        \* len(chunk_text.strip()) < 50

ZeroVector == [i \in 1..EmbeddingDim |-> 0]

\* a vector of the embedding model: v in its first components
Embed(v) == [i \in 1..EmbeddingDim |-> IF i <= Len(v) THEN v[i] ELSE 0]

\* what the embedding backend does with one call: the client cannot be
\* built or embeddings.create raises, or it returns a vector
BackendReplies ==
    {[raises |-> TRUE]} \cup
    {[raises |-> FALSE, embedding |-> Embed(v)] : v \in {<<1, 0>>, <<1, 1>>}}

\* a variant that lets the exception out: the caller gets no vector
generate_embedding_unguarded(text, reply) ==
    IF reply.raises THEN <<>> ELSE reply.embedding

\* lines 355-372
generate_embedding(text, reply) ==
    IF reply.raises THEN ZeroVector ELSE reply.embedding

\* the text sent to the backend, lines 357-359
cleaned_text(text) == first_chars(sub_spaces(strip(text)), MaxEmbedChars)

IngestPaths == {"resource", "quiz", "assignment", "topics"}

MSG_INSUFFICIENT(path) ==
    IF path = "topics" THEN <<"Insufficient syllabus content to process">>
    ELSE <<"Insufficient content extracted from file">>

\* the extracted texts: sentences of 30 or 250 letters, a blank between two
IngestSentences == {<<Run("a", n), Run(".", 1)>> : n \in {30, 250}}

RECURSIVE IngestTextsOf(_)
IngestTextsOf(n) ==
    IF n = 1 THEN IngestSentences
    ELSE {text \o <<Run(" ", 1)>> \o sentence :
             text \in IngestTextsOf(n - 1), sentence \in IngestSentences}

IngestTexts == {<<>>} \cup UNION {IngestTextsOf(n) : n \in 1..MaxSentences}

IngestCourse == 1

\* the locals of a call: the chunks to process, the position in them, the
\* table size at the start, and what happened to the chunks so far
ingest_locals(pc_, path, data) ==
    [pc |-> pc_, path |-> path, data |-> data, todo |-> 1,
     base |-> Len(chunks), returned |-> FALSE,
     failed |-> {}, db_failed |-> {}, embed_call |-> NoResult]

\* the call starts: the text is extracted and chunked.  doc_ok: the
\* Document row of a course file could be created.
IngestStart(path, text, doc_ok) ==
    /\ ingest.pc = "idle"
    /\ path = "resource" => doc_ok
    /\ IF path = "resource"
       THEN IF text = <<>>
            THEN /\ ingest' = ingest_locals("done", path, <<>>)
                 /\ owner' = owner
            ELSE /\ ingest' = ingest_locals("loop", path,
                                  intelligent_chunk_text(text,
                                      DefaultChunkSize, DefaultOverlap))
                 /\ owner' = owner
       ELSE IF text = <<>> \/ StrLen(strip(text)) < MinContentLen
            THEN /\ ingest' = ingest_locals("done", path, <<>>)
                 /\ owner' = [owner EXCEPT
                                 !.processing_error = MSG_INSUFFICIENT(path)]
            ELSE IF ~doc_ok
            THEN /\ ingest' = ingest_locals("done", path, <<>>)
                 /\ owner' = [is_processed |-> FALSE,
                              processing_error |-> <<EXC>>]
            ELSE /\ ingest' = ingest_locals("loop", path,
                                  intelligent_chunk_text(text,
                                      CourseChunkSize, DefaultOverlap))
                 /\ owner' = owner
    /\ UNCHANGED <<searchVars, chunkerVars, planVars, rateVars, guardVars,
                   raceVars, chatVars, extVars>>

\* a variant that keeps the rows written before the exception
atomic_keep(table, base) == table

\* rag_pipeline.py line 717, with transaction.atomic(): an exception that
\* leaves the block undoes the rows written in it; base is the size of the
\* table when the block was entered
atomic_rollback(table, base) == SubSeq(table, 1, base)

\* DocumentChunk.objects.create of one chunk of the call
chunk_row(chunk_data, embedding) ==
    [id |-> Len(chunks) + 1, course_id |-> IngestCourse,
     parent |-> IF ingest.path = "resource" THEN "resource" ELSE "document",
     content |-> chunk_data.content, chunk_index |-> chunk_data.chunk_index,
     word_count |-> chunk_data.word_count, embedding |-> embedding]

\* one turn of the loop over the chunks: rag_pipeline.py lines 732-747,
\* course_rag_extension.py lines 75-117, 178-220 and 480-523.  reply is what
\* the embedding backend does, db_ok whether the row can be inserted.
IngestOne(reply, db_ok) ==
    /\ ingest.pc = "loop"
    /\ ingest.todo <= Len(ingest.data)
    /\ LET chunk_data == ingest.data[ingest.todo]
           embedding == generate_embedding(chunk_data.content, reply)
           called == [text |-> cleaned_text(chunk_data.content),
                      raises |-> reply.raises, embedding |-> embedding]
           failed == IF reply.raises
                     THEN ingest.failed \cup {chunk_data.chunk_index}
                     ELSE ingest.failed
       IN  CASE ingest.path = "resource" ->
                  IF db_ok
                  THEN /\ ingest' = [ingest EXCEPT !.todo = @ + 1,
                                        !.failed = failed,
                                        !.embed_call = called]
                       /\ chunks' = Append(chunks,
                                           chunk_row(chunk_data, embedding))
                       /\ owner' = owner
                  ELSE \* the exception leaves transaction.atomic(): rollback
                       /\ ingest' = [ingest EXCEPT !.pc = "done",
                                        !.returned = FALSE,
                                        !.failed = failed,
                                        !.db_failed = @ \cup
                                            {chunk_data.chunk_index},
                                        !.embed_call = called]
                       /\ chunks' = atomic_rollback(chunks, ingest.base)
                       /\ owner' = owner
             [] ingest.path \in {"quiz", "assignment"} ->
                  IF StrLen(strip(chunk_data.content)) < MinChunkLen
                  THEN /\ ingest' = [ingest EXCEPT !.todo = @ + 1]
                       /\ chunks' = chunks
                       /\ owner' = owner
                  ELSE IF embedding = <<>>          \* if not embedding
                  THEN /\ ingest' = [ingest EXCEPT !.todo = @ + 1,
                                        !.failed = failed,
                                        !.embed_call = called]
                       /\ chunks' = chunks
                       /\ owner' = owner
                  ELSE /\ ingest' = [ingest EXCEPT !.todo = @ + 1,
                                        !.failed = failed,
                                        !.db_failed =
                                            IF db_ok THEN @
                                            ELSE @ \cup {chunk_data.chunk_index},
                                        !.embed_call = called]
                       /\ chunks' = IF db_ok
                                    THEN Append(chunks,
                                             chunk_row(chunk_data, embedding))
                                    ELSE chunks
                       /\ owner' = owner
             [] ingest.path = "topics" ->
                  \* chunk_text is the dict: chunk_text.strip() raises, and
                  \* the handler of line 532 ends the call
                  /\ ingest' = [ingest EXCEPT !.pc = "done"]
                  /\ chunks' = chunks
                  /\ owner' = [is_processed |-> FALSE,
                               processing_error |-> <<EXC>>]
    /\ UNCHANGED <<query, results, chunkerVars, planVars, rateVars,
                   guardVars, raceVars, chatVars, extVars>>

\* a variant of the loop that ends at the first chunk whose embedding call
\* raised
IngestChunk_abort(reply, db_ok) ==
    IF reply.raises /\ ingest.pc = "loop" /\ ingest.todo <= Len(ingest.data)
       /\ ingest.path # "topics"
    THEN /\ ingest' = [ingest EXCEPT !.todo = Len(ingest.data) + 1,
                          !.failed = @ \cup
                              {ingest.data[ingest.todo].chunk_index}]
         /\ UNCHANGED <<owner, searchVars, chunkerVars, planVars, rateVars,
                        guardVars, raceVars, chatVars, extVars>>
    ELSE IngestOne(reply, db_ok)

IngestChunk(reply, db_ok) == IngestOne(reply, db_ok)

\* after the loop: return True, or mark the course file as processed
IngestFinish ==
    /\ ingest.pc = "loop"
    /\ ingest.todo > Len(ingest.data)
    /\ IF ingest.path = "resource"
       THEN /\ ingest' = [ingest EXCEPT !.pc = "done", !.returned = TRUE]
            /\ owner' = owner
       ELSE /\ ingest' = [ingest EXCEPT !.pc = "done"]
            /\ owner' = [is_processed |-> TRUE, processing_error |-> <<>>]
    /\ UNCHANGED <<searchVars, chunkerVars, planVars, rateVars, guardVars,
                   raceVars, chatVars, extVars>>

InitIngest ==
    /\ IngestIdle
    /\ ChunkerIdle
    /\ PlanIdle
    /\ RateIdle
    /\ GuardIdle
    /\ RaceIdle
    /\ SearchIdle
    /\ ChatIdle
    /\ ExtIdle

NextIngest ==
    \/ /\ ingest.pc = "idle"
       /\ \E path \in IngestPaths, text \in IngestTexts, doc_ok \in BOOLEAN :
             IngestStart(path, text, doc_ok)
    \/ /\ ingest.pc = "loop"
       /\ \E reply \in BackendReplies, db_ok \in BOOLEAN :
             IngestChunk(reply, db_ok)
    \/ IngestFinish

SpecIngest == InitIngest /\ [][NextIngest]_vars

(***************************************************************************)
(* RAGRetriever.retrieve_contextual_information, StudyPlanGenerator        *)
(* .generate_study_plan and ._parse_ai_response, RAGPipeline               *)
(* .generate_study_plan_from_rag and .generate_contextual_study_plan       *)
(*                                                                         *)
(* A Python dict is a record, {} the record without fields, None NoResult. *)
(* A reply of the LLM is a sequence of tokens: prose, the two braces, and  *)
(* "fields" for the members of a JSON object.                              *)
(***************************************************************************)
MaxReplyTokens == 3    \* tokens of a reply of the LLM

EmptyDict == [k \in {} |-> TRUE]

\* bool(d) of a dict or None
Truthy(d) == d # NoResult /\ DOMAIN d # {}

ContextKeys == {"study_context", "course", "relevant_chunks",
                "knowledge_nodes", "existing_plans", "query_text"}
\* the sub-fetches run inside retrieve_contextual_information; the other two
\* are querysets that are only built there
EagerFetches == {"study_context", "course", "relevant_chunks"}
LazyFetches  == {"knowledge_nodes", "existing_plans"}
SubFetches   == EagerFetches \cup LazyFetches

\* which sub-fetch fails in one call: none, or one of them
FetchFailures == {{}} \cup {{k} : k \in SubFetches}

ChunkTopics == {{}, {"Sorting"}}       \* topics of the chunks retrieved

\* lines 419-457: the bundle, or {} when a sub-fetch raises inside the try;
\* a queryset whose query will fail is in the bundle as it is
retrieve_contextual_information(failing, topics) ==
    IF failing \cap EagerFetches # {} THEN EmptyDict
    ELSE [k \in ContextKeys |->
            IF k \in failing THEN [value |-> "failing queryset"]
            ELSE IF k = "relevant_chunks"
                 THEN [value |-> "ok", topics |-> topics]
                 ELSE [value |-> "ok"]]

\* context.get('relevant_chunks', []), as the topics of the chunks
topics_of(context) ==
    IF "relevant_chunks" \in DOMAIN context
       /\ context["relevant_chunks"].value = "ok"
    THEN context["relevant_chunks"].topics
    ELSE {}

\* _build_generation_prompt raises: context['course'] of {}, or the
\* evaluation of a queryset whose query fails
prompt_raises(context) ==
    \/ "course" \notin DOMAIN context
    \/ context["knowledge_nodes"].value = "failing queryset"

ReplyTokens == {"prose", "{", "}", "fields"}
LLMReplies == UNION {[1..n -> ReplyTokens] : n \in 1..MaxReplyTokens}

FirstIndex(text, token) ==
    IF \E i \in 1..Len(text) : text[i] = token
    THEN CHOOSE i \in 1..Len(text) :
            text[i] = token /\ \A j \in 1..(i - 1) : text[j] # token
    ELSE 0

LastIndex(text, token) ==
    IF \E i \in 1..Len(text) : text[i] = token
    THEN CHOOSE i \in 1..Len(text) :
            text[i] = token /\ \A j \in (i + 1)..Len(text) : text[j] # token
    ELSE 0

\* re.search(r'\{.*\}', response_text, re.DOTALL).group(), <<>> for no match
json_match(response_text) ==
    LET first == FirstIndex(response_text, "{")
        last == LastIndex(response_text, "}")
    IN  IF first > 0 /\ last > first
        THEN SubSeq(response_text, first, last)
        ELSE <<>>

ParsedPlan == [title |-> <<"fields">>]

\* lines 665-696: the dict parsed, {} for no JSON and for a JSONDecodeError
_parse_ai_response(response_text) ==
    LET json_str == json_match(response_text)
    IN  IF json_str = <<"{", "fields", "}">> THEN ParsedPlan
        ELSE EmptyDict

\* the reply is one the parser fails on: no JSON object, or a malformed one
parse_fails(response_text) ==
    json_match(response_text) \notin {<<"{", "}">>, <<"{", "fields", "}">>}

StudyHours == {1, 10}
DefaultTopics == <<"Introduction", "Core Concepts", "Practice Problems", "Review">>
PlanCourse == 1
PlanUser == 1

Max(a, b) == IF a > b THEN a ELSE b

\* list(topics)[:8]: the one topic of the model, or the default list
topics_list(topics) ==
    IF topics # {} THEN <<CHOOSE t \in topics : TRUE>> ELSE DefaultTopics

\* lines 1010-1048
_generate_fallback_study_plan(course, study_hours, topics) ==
    [title |-> <<"Study Plan for", course>>,
     description |-> <<"AI-generated study plan for:", "query">>,
     topics |-> [i \in 1..Len(topics_list(topics)) |->
                    [id |-> <<"topic_", i>>,
                     title |-> topics_list(topics)[i],
                     estimated_hours |->
                         Max(1, study_hours \div Len(topics_list(topics))),
                     completed |-> FALSE]],
     total_estimated_hours |-> study_hours,
     difficulty_level |-> 3,
     duration_days |-> Max(7, study_hours \div 2),
     generated_by |-> "ai_assistant"]

\* the call starts: generate_contextual_study_plan, or
\* generate_study_plan_from_rag called directly
GenStart(entry, study_hours) ==
    /\ gen.pc = "idle"
    /\ gen' = [pc |-> IF entry = "contextual" THEN "outer_context"
                      ELSE "context",
               entry |-> entry, study_hours |-> study_hours,
               outer_topics |-> {}, failing |-> {}, context |-> EmptyDict,
               called_llm |-> FALSE, failed |-> FALSE, reply |-> <<>>,
               plan_data |-> NoResult, returned |-> NoResult]
    /\ UNCHANGED <<plans, chunkerVars, ingestVars, rateVars, guardVars,
                   raceVars, searchVars, chatVars, extVars>>

\* generate_contextual_study_plan, lines 937-958: the first retrieval
GenOuterContext(failing, topics) ==
    /\ gen.pc = "outer_context"
    /\ gen' = [gen EXCEPT !.pc = "context",
                 !.outer_topics =
                    topics_of(retrieve_contextual_information(failing, topics))]
    /\ UNCHANGED <<plans, chunkerVars, ingestVars, rateVars, guardVars,
                   raceVars, searchVars, chatVars, extVars>>

\* generate_study_plan_from_rag, lines 767-776: its own retrieval
GenContext(failing, topics) ==
    /\ gen.pc = "context"
    /\ gen' = [gen EXCEPT !.pc = "generate", !.failing = failing,
                 !.context = retrieve_contextual_information(failing, topics)]
    /\ UNCHANGED <<plans, chunkerVars, ingestVars, rateVars, guardVars,
                   raceVars, searchVars, chatVars, extVars>>

\* generate_study_plan, lines 476-498, inside generate_study_plan_from_rag,
\* lines 779-800.  llm_raises: the client cannot be built or the completion
\* call raises; log_ok: the RAGQuery row can be inserted.
GenGenerate(llm_raises, reply, log_ok) ==
    /\ gen.pc = "generate"
    /\ llm_raises => reply = <<>>
    /\ ~llm_raises => reply # <<>>
    /\ LET plan_data ==
               IF llm_raises THEN EmptyDict ELSE _parse_ai_response(reply)
       IN  IF prompt_raises(gen.context)
           THEN \* the exception is caught at line 798: no call of the LLM
                gen' = [gen EXCEPT !.pc = "generated", !.failed = TRUE,
                                   !.plan_data = NoResult]
           ELSE gen' = [gen EXCEPT !.pc = "generated",
                          !.called_llm = TRUE, !.reply = reply,
                          !.failed = llm_raises \/ parse_fails(reply),
                          !.plan_data = IF log_ok THEN plan_data
                                        ELSE NoResult]
    /\ UNCHANGED <<plans, chunkerVars, ingestVars, rateVars, guardVars,
                   raceVars, searchVars, chatVars, extVars>>

\* a variant that keeps the reply when no plan came back
plan_or_fallback_raw(plan_data, reply, fallback) ==
    IF ~Truthy(plan_data) THEN [title |-> reply] ELSE plan_data

\* lines 976-980
plan_or_fallback(plan_data, reply, fallback) ==
    IF ~Truthy(plan_data) THEN fallback ELSE plan_data

\* generate_contextual_study_plan, lines 976-1008: the fallback, the
\* StudyPlan row and the dict returned.  db_ok: the row can be inserted.
GenStore(db_ok) ==
    /\ gen.pc = "generated"
    /\ gen.entry = "contextual"
    /\ LET plan_data ==
               plan_or_fallback(gen.plan_data, gen.reply,
                   _generate_fallback_study_plan(PlanCourse, gen.study_hours,
                                                 gen.outer_topics))
       IN  IF db_ok
           THEN /\ plans' = Append(plans,
                       [id |-> Len(plans) + 1, user |-> PlanUser,
                        course |-> PlanCourse, status |-> "draft",
                        title |-> IF "title" \in DOMAIN plan_data
                                  THEN plan_data.title
                                  ELSE <<"AI Study Plan for", PlanCourse>>,
                        plan_data |-> plan_data])
                /\ gen' = [gen EXCEPT !.pc = "done",
                              !.returned = [success |-> TRUE,
                                            study_plan_id |-> Len(plans) + 1,
                                            plan_data |-> plan_data,
                                            rag_context_used |-> TRUE]]
           ELSE /\ plans' = plans
                /\ gen' = [gen EXCEPT !.pc = "done",
                              !.returned = [raised |-> TRUE]]
    /\ UNCHANGED <<chunkerVars, ingestVars, rateVars, guardVars,
                   raceVars, searchVars, chatVars, extVars>>

\* generate_study_plan_from_rag returns to its caller, lines 796-800
GenReturn ==
    /\ gen.pc = "generated"
    /\ gen.entry = "from_rag"
    /\ gen' = [gen EXCEPT !.pc = "done", !.returned = gen.plan_data]
    /\ UNCHANGED <<plans, chunkerVars, ingestVars, rateVars, guardVars,
                   raceVars, searchVars, chatVars, extVars>>

InitPlan ==
    /\ PlanIdle
    /\ ChunkerIdle
    /\ IngestIdle
    /\ RateIdle
    /\ GuardIdle
    /\ RaceIdle
    /\ SearchIdle
    /\ ChatIdle
    /\ ExtIdle

NextPlan ==
    \/ \E entry \in {"contextual", "from_rag"}, study_hours \in StudyHours :
          GenStart(entry, study_hours)
    \/ /\ gen.pc = "outer_context"
       /\ \E failing \in FetchFailures, topics \in ChunkTopics :
             GenOuterContext(failing, topics)
    \/ /\ gen.pc = "context"
       /\ \E failing \in FetchFailures, topics \in ChunkTopics :
             GenContext(failing, topics)
    \/ /\ gen.pc = "generate"
       /\ \E llm_raises \in BOOLEAN, reply \in {<<>>} \cup LLMReplies,
             log_ok \in BOOLEAN :
             GenGenerate(llm_raises, reply, log_ok)
    \/ \E db_ok \in BOOLEAN : GenStore(db_ok)
    \/ GenReturn

SpecPlan == InitPlan /\ [][NextPlan]_vars

(***************************************************************************)
(* Claims                                                                  *)
(***************************************************************************)
WindowSeconds == ChatWindowMinutes * SecondsPerMinute

\* the calls of log before call i that were made by the same user, were
\* admitted and are still inside the window at the time of call i
AdmittedInWindowBefore(i) ==
    {j \in 1..(i - 1) : /\ log[j].user = log[i].user
                        /\ log[j].ok
                        /\ log[j].t > log[i].t - WindowSeconds}

\* C1: a list returned by retrieve_relevant_chunks for course_id = A holds
\* no chunk of another course, whatever the store, chunk_types, top_k and
\* similarity_threshold.
C1_SearchScopedToCourse ==
    query # NoResult =>
        \A k \in 1..Len(results) : results[k].course_id = query.course_id

\* a non-empty list was returned from a store that also holds a chunk of
\* another course which passes the type and similarity filters
C1_Witness ==
    /\ query # NoResult
    /\ results # <<>>
    /\ \E i \in 1..Len(chunks) :
          /\ chunks[i].course_id # query.course_id
          /\ query.chunk_types # {} => chunks[i].chunk_type \in query.chunk_types
          /\ similarity_gte(chunks[i].embedding, query.query_embedding,
                            query.similarity_threshold)
          /\ \A k \in 1..Len(results) :
                ~similarity_gt(results[k].embedding, chunks[i].embedding,
                               query.query_embedding)

\* C2: of the sequential calls of one user, a call returns True exactly
\* when fewer than N earlier admitted calls lie inside its window: the first
\* N calls of a window return True, the next one inside that window returns
\* False, and a call made after the earlier ones left the window returns
\* True again.
C2_SlidingWindowBoundary ==
    \A i \in 1..Len(log) :
        log[i].ok <=> (Cardinality(AdmittedInWindowBefore(i)) < ChatMaxRequests)

\* N calls admitted, the next refused, and a later call admitted again
C2_Witness ==
    \E i, k \in 1..Len(log) :
        /\ i < k
        /\ log[i].user = log[k].user
        /\ ~log[i].ok
        /\ Cardinality({j \in 1..(i - 1) : log[j].user = log[i].user /\ log[j].ok})
              = ChatMaxRequests
        /\ log[k].ok

\* number of occurrences of x in the list
Count(list, x) == Cardinality({i \in 1..Len(list) : list[i] = x})

LastCall == log'[Len(log')]

\* C9: a call of is_allowed that returns False adds no entry to the user's
\* list and removes only expired ones; a call that returns True adds exactly
\* one entry, the current timestamp.
C9_AppendOnlyWhenAllowed ==
    [][ log' # log =>
          LET u      == LastCall.user
              before == requests_of(_requests, u)
              after  == requests_of(_requests', u)
              times  == {before[i] : i \in 1..Len(before)} \cup
                        {after[i] : i \in 1..Len(after)} \cup {now}
          IN  /\ \A x \in times :
                    Count(after, x) =
                        (IF x > now - WindowSeconds THEN Count(before, x) ELSE 0)
                        + (IF LastCall.ok /\ x = now THEN 1 ELSE 0)
              /\ Len(after) =
                    Cardinality({i \in 1..Len(before) : before[i] > now - WindowSeconds})
                    + (IF LastCall.ok THEN 1 ELSE 0)
      ]_vars

\* calls have been admitted until the list of a user is full, and a call
\* has been refused
C9_Witness ==
    /\ \E i \in 1..Len(log) : ~log[i].ok
    /\ \E i \in 1..Len(log) : log[i].ok
    /\ \E u \in DOMAIN _requests : Len(_requests[u]) = ChatMaxRequests

\* C3: whatever the interleaving of concurrent is_allowed calls of one user,
\* the calls admitted with a timestamp inside one window are at most
\* max_requests.
C3_AdmittedWithinLimit ==
    \A i \in 1..Len(log) :
        log[i].ok =>
            Cardinality({j \in 1..Len(log) :
                            /\ log[j].user = log[i].user
                            /\ log[j].ok
                            /\ log[j].t > log[i].t - WindowSeconds
                            /\ log[j].t <= log[i].t}) <= ChatMaxRequests

\* the chat turn whose response is in `response`
TurnDone == pc = "done" /\ req # NoRequest /\ response # NoResult

Has(r, field) == field \in DOMAIN r

\* the turn obtained a text from the LLM and answered with status 200
DeliveredFromLLM ==
    /\ TurnDone
    /\ Has(req, "source") /\ req.source = "llm"
    /\ response.status = 200

\* C4: the LLM is called only for a message that validate_message accepted,
\* and a text obtained from the LLM is returned only as validate_response
\* left it: without tags, without code blocks, and replaced when it matches
\* a system-information pattern.
C4_ChatTurnOrder ==
    /\ llm_prompt # NoResult =>
          /\ Has(req, "message")
          /\ validate_message(req.message).ok
    /\ DeliveredFromLLM =>
          /\ response.response = validate_response(req.llm_raw).text
          /\ \A i \in 1..Len(response.response) :
                ~IsTag(response.response[i]) /\ ~IsCodeBlock(response.response[i])
          /\ ~\E p \in 1..Len(system_patterns) :
                re_search(system_patterns[p], response.response)

\* the LLM replied with a text that validate_response had to change, and the
\* changed text was returned
C4_Witness ==
    /\ DeliveredFromLLM
    /\ req.llm_raw # response.response
    /\ llm_prompt # NoResult

\* the guard rejected the message of the turn
InputBlocked ==
    /\ TurnDone
    /\ Has(req, "message")
    /\ ~validate_message(req.message).ok

\* the guard rejected the reply of the LLM in the turn
OutputBlocked ==
    /\ TurnDone
    /\ Has(req, "is_response_safe")
    /\ ~req.is_response_safe
    /\ response.status = 200

C7_RejectionTextFixed ==
    InputBlocked =>
        /\ \A m \in ChatMessages :
              (m # <<>> /\ TextLen(m) <= MaxSerializerLen /\ ~validate_message(m).ok)
                  => blocked_response(m, validate_message(m).error).response
                        = response.response
        /\ response.response # validate_message(req.message).error

TextHasExc(r, field) ==
    Has(r, field) /\ \E i \in 1..Len(r[field]) : r[field][i] = EXC

\* C8: no response of the chat turn, of answer_question_with_context or of
\* study-plan generation carries the text of an exception.
C8_NoExceptionText ==
    response # NoResult =>
        /\ ~TextHasExc(response, "response")
        /\ ~TextHasExc(response, "answer")
        /\ ~TextHasExc(response, "details")
        /\ ~TextHasExc(response, "error")

InTurn == pc \in {"parse", "validate", "context", "ai", "respond"}

\* C10: from its admission to its response, whatever the outcome, the
\* timestamp of a chat request stays in the list of its user, and no step of
\* the turn after is_allowed changes RateLimiter._requests.
C10_SlotKept ==
    /\ []((InTurn \/ TurnDone) =>
            \E i \in 1..Len(requests_of(_requests, req.user_id)) :
                _requests[req.user_id][i] = req.admitted_at)
    /\ [][InTurn => _requests' = _requests]_vars

\* an admitted turn ended in a rejection or in a failure
C10_Witness ==
    /\ TurnDone
    /\ \/ response.status = 500
       \/ Has(response, "security_blocked")
    /\ \E i \in 1..Len(requests_of(_requests, req.user_id)) :
          _requests[req.user_id][i] = req.admitted_at

\* C5: a plain question that contains the suspicious keyword "exploit" is
\* accepted exactly when it also contains an educational keyword.
PlainWords == {"explain", "exploit", "algorithm", "course"}

C5_KeywordGateConjunction ==
    ( /\ guard_out # NoResult
      /\ \A i \in 1..Len(guard_in) : guard_in[i] \in PlainWords
      /\ \E i \in 1..Len(guard_in) : guard_in[i] = "exploit" )
    => ( guard_out.ok <=> keyword_count(EDUCATIONAL_KEYWORDS, guard_in) > 0 )

(***************************************************************************)
(* Claims on the chunker                                                   *)
(***************************************************************************)
Chunked == chunk_out # NoResult

Returned == chunk_out.returned

Normalized == sub_spaces(strip(chunk_in.text))

\* s[n:]
drop_chars(s, n) == last_chars(s, StrLen(s) - n)

\* the contents from chunk i on, each without the characters it repeats
\* from the end of the chunk before it
RECURSIVE Reconstruct(_, _, _)
Reconstruct(cs, overlap, i) ==
    IF i > Len(cs) THEN <<>>
    ELSE Cat(IF i = 1 THEN cs[1].content
             ELSE drop_chars(cs[i].content,
                             Min(overlap, StrLen(cs[i - 1].content))),
             Reconstruct(cs, overlap, i + 1))

\* C16: a non-empty text gives at least one chunk, and the contents in
\* chunk_index order, overlaps removed, are the whole normalized text.
C16_ChunkCoverage ==
    (Chunked /\ chunk_in.text # <<>>) =>
        /\ Len(Returned) >= 1
        /\ \A i \in 1..Len(Returned) : Returned[i].chunk_index = i - 1
        /\ Reconstruct(Returned, chunk_in.overlap, 1) = Normalized

\* C17: the last overlap characters of a chunk are a prefix of the next
\* chunk.
C17_OverlapContinuity ==
    Chunked =>
        \A i \in 1..(Len(Returned) - 1) :
            startswith(Returned[i + 1].content,
                       last_chars(Returned[i].content, chunk_in.overlap))

\* two chunks, the first longer than a positive overlap
C17_Witness ==
    /\ Chunked
    /\ Len(Returned) >= 2
    /\ chunk_in.overlap > 0
    /\ StrLen(Returned[1].content) > chunk_in.overlap
    /\ StrLen(Returned[2].content) > chunk_in.overlap

\* three paragraphs of more than 200 characters, one newline between them
ThreeParagraphs ==
    {p1 \o <<Run("\n", 1)>> \o p2 \o <<Run("\n", 1)>> \o p3 :
        p1, p2, p3 \in {p \in Sentences : StrLen(p) > 200}}

\* C18: such a text chunked with target size 150 gives at least 3 chunks,
\* each of at most about target size + overlap characters (read here as
\* less than twice that).
C18_SentenceFallbackSizes ==
    (Chunked /\ chunk_in.text \in ThreeParagraphs /\ chunk_in.chunk_size = 150) =>
        /\ Len(Returned) >= 3
        /\ \A i \in 1..Len(Returned) :
              StrLen(Returned[i].content)
                 < 2 * (chunk_in.chunk_size + chunk_in.overlap)

(***************************************************************************)
(* Claims on the embedding fallback and on ingestion                       *)
(***************************************************************************)
Ingesting == ingest.pc # "idle"

\* C11: generate_embedding always returns a vector of EmbeddingDim
\* components, and the zero vector when the backend raised.
C11_EmbeddingNeverFails ==
    (Ingesting /\ ingest.embed_call # NoResult) =>
        /\ Len(ingest.embed_call.embedding) = EmbeddingDim
        /\ ingest.embed_call.raises =>
              \A i \in 1..EmbeddingDim : ingest.embed_call.embedding[i] = 0

\* a call during which the backend raised
C11_Witness ==
    /\ Ingesting
    /\ ingest.embed_call # NoResult
    /\ ingest.embed_call.raises
    /\ ingest.embed_call.embedding = ZeroVector

\* the rows written by the call in progress
NewRows == {i \in (ingest.base + 1)..Len(chunks) : TRUE}

RowOf(chunk_data) ==
    {i \in NewRows : /\ chunks[i].chunk_index = chunk_data.chunk_index
                     /\ chunks[i].content = chunk_data.content}

\* C12: on the resource and quiz/assignment paths, while no insert has
\* failed, every chunk the loop has passed is stored, a chunk whose
\* embedding call raised with the zero vector.
C12_BatchSurvivesEmbeddingFailure ==
    (Ingesting /\ ingest.path # "topics" /\ ingest.db_failed = {}) =>
        \A k \in 1..Min(ingest.todo - 1, Len(ingest.data)) :
            (ingest.path = "resource"
                \/ StrLen(strip(ingest.data[k].content)) >= MinChunkLen) =>
               /\ RowOf(ingest.data[k]) # {}
               /\ \A i \in RowOf(ingest.data[k]) :
                     /\ Len(chunks[i].embedding) = EmbeddingDim
                     /\ ingest.data[k].chunk_index \in ingest.failed =>
                           chunks[i].embedding = ZeroVector

\* the call is over, the embedding of one chunk failed and a later chunk
\* was embedded and stored
C12_Witness ==
    /\ ingest.pc = "done"
    /\ ingest.path \in {"resource", "quiz"}
    /\ ingest.db_failed = {}
    /\ \E i, j \in NewRows :
          /\ chunks[i].chunk_index < chunks[j].chunk_index
          /\ chunks[i].chunk_index \in ingest.failed
          /\ chunks[i].embedding = ZeroVector
          /\ chunks[j].embedding # ZeroVector

SameSimilarity(a, b, q) == ~similarity_gt(a, b, q) /\ ~similarity_gt(b, a, q)

\* C20: in the list a search returned, two chunks of the same similarity
\* come in ascending chunk_index order.
C20_TiesByChunkIndex ==
    query # NoResult =>
        \A i, j \in 1..Len(results) :
            (i < j /\ SameSimilarity(results[i].embedding, results[j].embedding,
                                     query.query_embedding)) =>
                results[i].chunk_index < results[j].chunk_index

(***************************************************************************)
(* Claims on context retrieval and plan generation                         *)
(***************************************************************************)
ContextRetrieved == gen.pc \in {"generate", "generated", "done"}

Generated == gen.pc \in {"generated", "done"}

\* C13: when one sub-fetch fails, the bundle still has every field, the
\* failed one empty and the others as fetched, and the LLM is called.
C13_PerFieldDegradation ==
    (ContextRetrieved /\ gen.failing # {}) =>
        /\ DOMAIN gen.context = ContextKeys
        /\ \A k \in DOMAIN gen.context :
              k \notin gen.failing => gen.context[k].value = "ok"
        /\ Generated => gen.called_llm

\* C14: what plan generation returns after a failed LLM call or a failed
\* parse differs from what it returns for a reply that is the empty object.
C14_FailureDistinctFromEmptyPlan ==
    (Generated /\ gen.called_llm /\ gen.failed) =>
        gen.plan_data # _parse_ai_response(<<"{", "}">>)

FallbackPlan ==
    _generate_fallback_study_plan(PlanCourse, gen.study_hours, gen.outer_topics)

StoredPlan == plans[Len(plans)]

\* C15: when generation failed and the plan row was stored, the plan stored
\* and returned is the one of the fallback generator, never the reply.
C15_FallbackOnFailure ==
    (gen.pc = "done" /\ gen.entry = "contextual" /\ gen.failed
        /\ gen.returned # [raised |-> TRUE]) =>
        /\ Len(plans) = gen.returned.study_plan_id
        /\ StoredPlan.plan_data = FallbackPlan
        /\ StoredPlan.title = FallbackPlan.title
        /\ gen.returned.plan_data = FallbackPlan
        /\ StoredPlan.plan_data # [title |-> gen.reply]

\* the LLM replied without a parsable object and the plan was stored
C15_Witness ==
    /\ gen.pc = "done"
    /\ gen.entry = "contextual"
    /\ gen.called_llm
    /\ gen.reply # <<>>
    /\ gen.failed
    /\ Len(plans) = 1
    /\ StoredPlan.plan_data = FallbackPlan

(***************************************************************************)
(* Claims on the chunk search of the context retrieval                     *)
(***************************************************************************)
ContextSearch == query # NoResult /\ query.top_k = ContextTopK

\* C21: the chunk search of retrieve_contextual_information has no
\* similarity floor: with at most 15 chunks in the course, every chunk of
\* the requested course is in the list returned, whatever its similarity.
C21_NoSimilarityFloor ==
    (ContextSearch /\ Len(chunks) <= ContextTopK) =>
        \A i \in 1..Len(chunks) :
            chunks[i].course_id = query.course_id =>
                \E k \in 1..Len(results) : results[k].id = chunks[i].id

(***************************************************************************)
(* StudyPlanGenerator._parse_ai_response, lines 672-688: the ids and the   *)
(* completed flags given to the topics and milestones of a parsed reply.   *)
(* A dict is a function on its keys; an id is a tuple, the empty string    *)
(* the empty tuple; the id f"topic_{i+1}_{h}" is <<"topic", i, h>> with i  *)
(* counted from 1.                                                         *)
(***************************************************************************)
MaxItems  == 2         \* topics and milestones of a reply
MaxParses == 2         \* calls recorded
MaxRuns   == 2         \* processes started
HashModulus == 10000   \* hash(...) % 10000

ItemNames == {"Sorting", "Graphs"}
HashValues == {12345, 0 - 7}

\* hash() on the strings of one process: hash('') is 0, the hash of another
\* string depends on the seed the process drew at its start
StrHashes ==
    {h \in [ItemNames \cup {""} -> HashValues \cup {0}] :
        h[""] = 0 /\ \A name \in ItemNames : h[name] # 0}

dict_get(d, key, default) == IF key \in DOMAIN d THEN d[key] ELSE default

dict_set(d, key, value) ==
    [k \in DOMAIN d \cup {key} |-> IF k = key THEN value ELSE d[k]]

Item(keys, id, name, completed) ==
    [k \in keys |-> CASE k = "id" -> id
                      [] k = "name" -> name
                      [] k = "completed" -> completed]

\* the topic objects of a reply: each of id, name and completed present or
\* not, and an id that is the empty string
Items ==
    {Item(keys, <<"t1">>, "Sorting", TRUE) :
        keys \in SUBSET {"id", "name", "completed"}}
      \cup {Item({"id", "name"}, <<>>, "Graphs", TRUE),
            Item({"name"}, <<>>, "Graphs", TRUE)}

RECURSIVE ItemLists(_)
ItemLists(n) ==
    IF n = 0 THEN {<<>>}
    ELSE {Append(l, item) : l \in ItemLists(n - 1), item \in Items}

\* the JSON objects json.loads returns: MaxItems topics and milestones at
\* most
ParsedReplies ==
    UNION {{[topics |-> l, milestones |-> m] :
               l \in ItemLists(n[1]), m \in ItemLists(n[2])} :
           n \in {c \in (0..MaxItems) \X (0..MaxItems) :
                      c[1] + c[2] <= MaxItems}}

\* lines 674-679 and 683-688
ensure_ids(items, prefix, hash) ==
    [i \in 1..Len(items) |->
        LET topic == items[i]
            with_id ==
                IF dict_get(topic, "id", <<>>) = <<>>
                THEN dict_set(topic, "id",
                         <<prefix, i,
                           hash[dict_get(topic, "name", "")] % HashModulus>>)
                ELSE topic
        IN  IF "completed" \notin DOMAIN with_id
            THEN dict_set(with_id, "completed", FALSE)
            ELSE with_id]

\* lines 670-690, on the object parsed from the reply
parse_plan_items(parsed_data, hash) ==
    [topics |-> ensure_ids(parsed_data.topics, "topic", hash),
     milestones |-> ensure_ids(parsed_data.milestones, "milestone", hash)]

\* one call of _parse_ai_response; a later call is given the reply of the
\* first one again
ParseReply(parsed_data) ==
    /\ Len(parsed) < MaxParses
    /\ parsed # <<>> => parsed_data = parsed[1].parsed_data
    /\ parsed' = Append(parsed,
                    [run |-> run, parsed_data |-> parsed_data,
                     returned |-> parse_plan_items(parsed_data, str_hash)])
    /\ UNCHANGED <<run, str_hash, courseVars, chunkerVars, ingestVars,
                   planVars, rateVars, guardVars, raceVars, searchVars,
                   chatVars>>

\* the program is started again: the new process draws its hash seed
Restart ==
    /\ run < MaxRuns
    /\ run' = run + 1
    /\ str_hash' \in StrHashes
    /\ UNCHANGED <<parsed, courseVars, chunkerVars, ingestVars, planVars,
                   rateVars, guardVars, raceVars, searchVars, chatVars>>

InitParse ==
    /\ run = 1
    /\ str_hash \in StrHashes
    /\ parsed = <<>>
    /\ CourseIdle
    /\ ChunkerIdle
    /\ IngestIdle
    /\ PlanIdle
    /\ RateIdle
    /\ GuardIdle
    /\ RaceIdle
    /\ SearchIdle
    /\ ChatIdle

NextParse ==
    \/ /\ Len(parsed) < MaxParses
       /\ \E parsed_data \in ParsedReplies : ParseReply(parsed_data)
    \/ Restart

SpecParse == InitParse /\ [][NextParse]_vars

(***************************************************************************)
(* Claims on the ids of the parsed plan                                    *)
(***************************************************************************)
ReturnedItems(entry) ==
    {entry.returned.topics[i] : i \in 1..Len(entry.returned.topics)}
        \cup {entry.returned.milestones[i] :
                 i \in 1..Len(entry.returned.milestones)}

\* C22: every topic and milestone of a parsed plan has a non-empty id and a
\* completed field, and two calls given the same reply, in the same run of
\* the program or in two runs, return the same plan.
C22_StableIds ==
    /\ \A n \in 1..Len(parsed) : \A item \in ReturnedItems(parsed[n]) :
          /\ "id" \in DOMAIN item
          /\ item["id"] # <<>>
          /\ "completed" \in DOMAIN item
    /\ \A a, b \in 1..Len(parsed) :
          parsed[a].parsed_data = parsed[b].parsed_data =>
              parsed[a].returned = parsed[b].returned

(***************************************************************************)
(* ChatSecurityGuard.sanitize_context.  A value of the context is a record *)
(* tagged with its Python type; a string is a sequence of runs; a dict is  *)
(* a function on its keys.                                                 *)
(***************************************************************************)
MaxDepth == 2          \* nesting depth of the values under a context key
MaxStrLen == 500       \* sanitized_value[:500]
MaxItemLen == 200      \* re.sub(...)[:200]
MaxListLen == 100      \* len(value) <= 100

safe_keys ==
    {"user_id", "username", "first_name", "course_id", "course_name",
     "last_message", "timestamp", "preferences", "current_course",
     "course_data", "course_stats", "enhanced_course_context"}

DangerousChars == {"<", ">", "\"", "'", ";", "\\"}

StrValue(chars)    == [type |-> "str", chars |-> chars]
IntValue(v)        == [type |-> "int", v |-> v]
ListValue(elems)   == [type |-> "list", elems |-> elems]
DictValue(entries) == [type |-> "dict", entries |-> entries]
NoneValue          == [type |-> "NoneType"]

\* re.sub(r'[<>"\';\\]', '', s)
RECURSIVE remove_dangerous(_)
remove_dangerous(s) ==
    IF s = <<>> THEN <<>>
    ELSE IF s[1][1] \in DangerousChars THEN remove_dangerous(Tail(s))
         ELSE Cat(<<s[1]>>, remove_dangerous(Tail(s)))

\* a variant that only cuts the string
sanitize_str_uncleaned(chars, limit) == first_chars(chars, limit)

\* lines 155-158 and 169
sanitize_str(chars, limit) == first_chars(remove_dangerous(chars), limit)

\* lines 137-177
RECURSIVE sanitize_context(_)
sanitize_context(context) ==
    IF context.type # "dict" THEN DictValue(EmptyDict)
    ELSE LET value(key) == context.entries[key]
             item_kept(item) == item.type \in {"str", "int", "dict"}
             sanitize_item(item) ==
                 CASE item.type = "str" ->
                          StrValue(sanitize_str(item.chars, MaxItemLen))
                   [] item.type = "int" -> item
                   [] item.type = "dict" -> sanitize_context(item)
             sanitize_list(elems) ==
                 LET kept == SelectSeq(elems, item_kept)
                 IN  [i \in 1..Len(kept) |-> sanitize_item(kept[i])]
             kept_keys ==
                 {key \in DOMAIN context.entries \cap safe_keys :
                     \/ value(key).type \in {"str", "int", "dict"}
                     \/ /\ value(key).type = "list"
                        /\ Len(value(key).elems) <= MaxListLen}
         IN  DictValue([key \in kept_keys |->
                     CASE value(key).type = "str" ->
                              StrValue(sanitize_str(value(key).chars, MaxStrLen))
                       [] value(key).type = "int" -> value(key)
                       [] value(key).type = "dict" ->
                              sanitize_context(value(key))
                       [] value(key).type = "list" ->
                              ListValue(sanitize_list(value(key).elems))])

\* the strings sent: clean, with a character to remove between two runs of
\* one letter, too long, and too long with characters to remove
SampleStrings ==
    {<<Run("a", 3)>>,
     <<Run("a", 2), Run("<", 1), Run("a", 1)>>,
     <<Run("a", 600)>>,
     <<Run(";", 2), Run("a", 600), Run("\\", 1)>>}

Atoms == {StrValue(chars) : chars \in SampleStrings} \cup {IntValue(1), NoneValue}

SampleKeys == {"username", "course_data", "password"}

\* a list too long to be kept
LongList == ListValue([i \in 1..(MaxListLen + 1) |-> StrValue(<<Run("<", 1)>>)])

RECURSIVE Values(_)
Values(depth) ==
    IF depth = 0 THEN Atoms
    ELSE LET inner == Values(depth - 1)
         IN  Atoms \cup {LongList}
               \cup {DictValue([k \in {key} |-> v]) :
                        key \in SampleKeys, v \in inner}
               \cup {DictValue([k \in {"username", "password"} |->
                             IF k = "username" THEN v
                             ELSE StrValue(<<Run("a", 3)>>)]) : v \in inner}
               \cup {ListValue(<<v>>) : v \in inner}
               \cup {ListValue(<<v, StrValue(<<Run("'", 1), Run("a", 300)>>)>>) :
                        v \in inner}

\* the arguments of sanitize_context: dicts, and values that are no dict
Contexts == {v \in Values(MaxDepth + 1) : v.type \in {"dict", "str"}}

SanitizeContext ==
    /\ guard_out = NoResult
    /\ guard_out' = [returned |-> sanitize_context(guard_in)]
    /\ UNCHANGED <<guard_in, rateVars, raceVars, searchVars, chatVars,
                   ragVars>>

InitSanitize ==
    /\ guard_in \in Contexts
    /\ guard_out = NoResult
    /\ RateIdle
    /\ RaceIdle
    /\ SearchIdle
    /\ ChatIdle
    /\ RagIdle

NextSanitize == SanitizeContext

SpecSanitize == InitSanitize /\ [][NextSanitize]_vars

(***************************************************************************)
(* Claims on sanitize_context                                              *)
(***************************************************************************)
NoDangerousChar(chars) ==
    \A i \in 1..Len(chars) : chars[i][1] \notin DangerousChars

\* v holds only allow-listed keys, and strings of at most limit characters
\* (MaxItemLen in a list) without a dangerous character
RECURSIVE Sanitized(_, _)
Sanitized(v, limit) ==
    CASE v.type = "str" ->
             StrLen(v.chars) <= limit /\ NoDangerousChar(v.chars)
      [] v.type = "dict" ->
             /\ DOMAIN v.entries \subseteq safe_keys
             /\ \A key \in DOMAIN v.entries :
                   Sanitized(v.entries[key], MaxStrLen)
      [] v.type = "list" ->
             \A i \in 1..Len(v.elems) : Sanitized(v.elems[i], MaxItemLen)
      [] OTHER -> TRUE

\* the strings and the keys of v, at every depth
RECURSIVE StringsOf(_)
StringsOf(v) ==
    CASE v.type = "str" -> {v.chars}
      [] v.type = "dict" ->
             UNION {StringsOf(v.entries[key]) : key \in DOMAIN v.entries}
      [] v.type = "list" ->
             UNION {StringsOf(v.elems[i]) : i \in 1..Len(v.elems)}
      [] OTHER -> {}

RECURSIVE KeysOf(_)
KeysOf(v) ==
    CASE v.type = "dict" ->
             DOMAIN v.entries \cup
                 UNION {KeysOf(v.entries[key]) : key \in DOMAIN v.entries}
      [] v.type = "list" ->
             UNION {KeysOf(v.elems[i]) : i \in 1..Len(v.elems)}
      [] OTHER -> {}

\* C23: the map sanitize_context returns holds only allow-listed keys at
\* every depth, and each of its strings has at most 500 characters (200 in
\* a list) and none of the characters < > " ' ; \.
C23_SanitizedContext ==
    guard_out # NoResult =>
        /\ guard_out.returned.type = "dict"
        /\ Sanitized(guard_out.returned, MaxStrLen)

\* a context with a key off the list under a kept key, from which a string
\* came back shorter than it went in
C23_Witness ==
    /\ guard_out # NoResult
    /\ guard_in.type = "dict"
    /\ \E key \in DOMAIN guard_in.entries \cap safe_keys :
          /\ KeysOf(guard_in.entries[key]) \ safe_keys # {}
          /\ key \in DOMAIN guard_out.returned.entries
    /\ \E chars \in StringsOf(guard_in) :
          /\ ~NoDangerousChar(chars)
          /\ sanitize_str(chars, MaxItemLen) \in StringsOf(guard_out.returned)

(***************************************************************************)
(* The course files and their processing, one request at a time:           *)
(*   apps/courses/views.py  CourseQuizViewSet, CourseAssignmentFileViewSet,*)
(*                          CourseTopicViewSet, CourseTopicItemViewSet     *)
(*   apps/resources/course_rag_extension.py  process_course_quiz,          *)
(*       process_course_assignment, process_course_topics,                 *)
(*       _extract_assignment_details, _create_assignment_from_details      *)
(* A row of files is a CourseQuiz, CourseAssignmentFile or CourseTopic.    *)
(* A datetime is [day, minute]; the text of a due date is given by its     *)
(* length and by what it spells.                                           *)
(***************************************************************************)
MaxFiles == 1           \* rows of the three course file tables
MaxProcessings == 2     \* processing runs of one row
DaySeconds == 86400
DefaultDueDays == 14    \* timedelta(weeks=2)
EndOfDay == 1439        \* 23:59, in minutes
DateLen == 10           \* len(due_date_str) == 10
MinTopicLen == 3        \* len(topic.strip()) >= 3

CourseKinds == {"quiz", "assignment", "topics"}

\* the contents: 31 characters, 251 characters
CourseTexts ==
    {<<Run("a", 30), Run(".", 1)>>, <<Run("a", 250), Run(".", 1)>>}

ManualText == <<Run("M", 18)>>         \* "Manual topic entry"

MSG_NO_RAG == <<"RAG pipeline not available">>
MSG_EXTRACTION == <<"Assignment extraction failed: str(e)">>

\* the due_date of the extracted JSON: null, a text, or a number.  spells:
\* "date" is YYYY-MM-DD, "datetime" is YYYY-MM-DD HH:MM, "other" is neither
NoDue == [type |-> "NoneType"]
DueText(len, spells, day, minute) ==
    [type |-> "str", len |-> len, spells |-> spells, day |-> day,
     minute |-> minute]
DueValues ==
    {NoDue,
     DueText(0, "other", 0, 0),
     DueText(10, "date", 40, 0),
     DueText(16, "datetime", 40, 1020),
     DueText(11, "other", 0, 0),               \* "next Friday"
     DueText(10, "other", 0, 0),               \* "31/01/2025"
     [type |-> "int"]}

\* what the LLM call of _extract_assignment_details gives: no JSON object
\* or an exception, or a JSON object with this due_date
NoDetails == [found |-> FALSE]
Details == {NoDetails} \cup {[found |-> TRUE, due_date |-> d] : d \in DueValues}

\* default_due.strftime("%Y-%m-%d 23:59")
default_due(at) ==
    DueText(16, "datetime", (at + DefaultDueDays * DaySeconds) \div DaySeconds,
            EndOfDay)

\* a variant that keeps a missing due date as it is
extracted_due_date_kept(due_date, at) == due_date

\* lines 597-609: the due_date left in extracted_data
extracted_due_date(due_date, at) ==
    CASE due_date.type = "NoneType" -> default_due(at)
      [] due_date.type = "int" -> default_due(at)   \* len() raises
      [] due_date.type = "str" ->
            IF due_date.len = 0 THEN default_due(at)
            ELSE IF due_date.len = DateLen
                 THEN [due_date EXCEPT
                          !.len = @ + 6,
                          !.spells = IF @ = "date" THEN "datetime" ELSE @,
                          !.minute = IF due_date.spells = "date"
                                     THEN EndOfDay ELSE @]
                 ELSE due_date

\* datetime.strptime(text, "%Y-%m-%d %H:%M") returns
strptime_ok(text) == text.type = "str" /\ text.spells = "datetime"

\* the topics of a stored chunk, as _extract_topics gave them
TopicLists ==
    {<<>>, <<"Sorting">>, <<"Sorting", "sorting">>, <<" Sorting ", "AI">>}

strip_topic(topic) == IF topic = " Sorting " THEN "Sorting" ELSE topic
len_topic(topic) == IF topic = "AI" THEN 2 ELSE 7
lower_topic(topic) ==
    IF topic \in {"Sorting", "sorting"} THEN "sorting"
    ELSE IF topic = " Sorting " THEN " sorting "
    ELSE "ai"

\* KnowledgeNode.objects.get_or_create(topic=topic, ...) and
\* related_chunks.add(chunk)
get_or_create_node(nodes, topic, source_type, chunk_id) ==
    IF \E i \in 1..Len(nodes) : nodes[i].topic = topic
    THEN [i \in 1..Len(nodes) |->
             IF nodes[i].topic = topic
             THEN [nodes[i] EXCEPT !.related_chunks = @ \cup {chunk_id}]
             ELSE nodes[i]]
    ELSE Append(nodes, [topic |-> topic, source_type |-> source_type,
                        related_chunks |-> {chunk_id}])

\* lines 101-113: the nodes of the topics of one stored chunk
RECURSIVE nodes_of_topics(_, _, _, _)
nodes_of_topics(nodes, topics, source_type, chunk_id) ==
    IF topics = <<>> THEN nodes
    ELSE nodes_of_topics(
             IF len_topic(strip_topic(topics[1])) >= MinTopicLen
             THEN get_or_create_node(nodes, strip_topic(topics[1]),
                                     source_type, chunk_id)
             ELSE nodes,
             Tail(topics), source_type, chunk_id)

\* what the services outside the program do during one request; a field
\* that the request cannot read has one value
AllExternals ==
    [rag : BOOLEAN,              \* CourseRAGExtension could be imported
     doc_ok : BOOLEAN,           \* Document.objects.create succeeds
     chunk_ok : BOOLEAN,         \* the chunks get a vector and a row
     details : Details,
     assignment_ok : BOOLEAN,    \* Assignment.objects.create succeeds
     topics : TopicLists]

Externals ==
    {ext \in AllExternals :
        /\ ~ext.rag => ext.doc_ok /\ ext.details = NoDetails
        /\ ~ext.doc_ok => ext.chunk_ok
        /\ ~ext.chunk_ok => ext.topics = <<>>
        /\ ~ext.details.found => ext.assignment_ok}

QuizExternals ==
    {ext \in Externals : ext.details = NoDetails}

TopicsExternals ==
    {ext \in QuizExternals : ext.chunk_ok /\ ext.topics = <<>>}

ExternalsOf(kind) ==
    CASE kind = "assignment" -> Externals
      [] kind = "quiz" -> QuizExternals
      [] kind = "topics" -> TopicsExternals

NoCall == [found |-> FALSE]

new_file(kind, content, is_processed) ==
    [id |-> Len(files) + 1, kind |-> kind, content |-> content,
     is_processed |-> is_processed, processing_error |-> <<>>,
     runs |-> 0, assignment |-> 0, call |-> NoCall]

\* the tables after the loop over the chunks of a quiz or assignment file:
\* lines 75-117 and 178-220
RECURSIVE store_chunks(_, _, _, _)
store_chunks(tables, data, document_id, ext) ==
    IF data = <<>> THEN tables
    ELSE IF \/ StrLen(strip(data[1].content)) < MinChunkLen
            \/ ~ext.chunk_ok
         THEN store_chunks(tables, Tail(data), document_id, ext)
         ELSE LET chunk_id == Len(tables.chunks) + 1
              IN  store_chunks(
                      [tables EXCEPT
                          !.chunks = Append(@,
                              [id |-> chunk_id, document |-> document_id,
                               chunk_index |-> data[1].chunk_index]),
                          !.nodes = nodes_of_topics(@, ext.topics,
                                        "course_file", chunk_id)],
                      Tail(data), document_id, ext)

\* process_course_quiz, process_course_assignment and process_course_topics
\* on the row, at time at: the row and the tables they leave
process_course_file(row, ext, at) ==
    LET tables0 == [row |-> [row EXCEPT !.runs = @ + 1],
                    documents |-> documents, chunks |-> chunks,
                    nodes |-> knowledge_nodes, assignments |-> assignments]
        short == \/ row.content = <<>>
                 \/ StrLen(strip(row.content)) < MinContentLen
        \* lines 153-157
        due == extracted_due_date(ext.details.due_date, at)
        tables1 ==
            IF row.kind = "assignment" /\ ext.details.found
               /\ row.assignment = 0
            THEN LET called == [tables0 EXCEPT
                                   !.row.call = [found |-> TRUE,
                                       due_date |-> ext.details.due_date,
                                       at |-> at,
                                       assignment_ok |-> ext.assignment_ok]]
                 IN  IF strptime_ok(due) /\ ext.assignment_ok
                     THEN [called EXCEPT
                              !.assignments = Append(@,
                                  [id |-> Len(@) + 1, file |-> row.id,
                                   due_date |-> [day |-> due.day,
                                                 minute |-> due.minute]]),
                              !.row.assignment = Len(assignments) + 1]
                     ELSE [called EXCEPT
                              !.row.processing_error = MSG_EXTRACTION]
            ELSE tables0
        document_id == Len(documents) + 1
        tables2 == [tables1 EXCEPT
                       !.documents = Append(@,
                           [id |-> document_id, kind |-> row.kind,
                            owner |-> row.id, run |-> row.runs + 1])]
        data == intelligent_chunk_text(row.content, CourseChunkSize,
                                       DefaultOverlap)
        failed(tables) == [tables EXCEPT !.row.is_processed = FALSE,
                                         !.row.processing_error = <<EXC>>]
        done(tables) == [tables EXCEPT !.row.is_processed = TRUE,
                                       !.row.processing_error = <<>>]
    IN  IF short
        THEN [tables0 EXCEPT
                 !.row.processing_error = MSG_INSUFFICIENT(row.kind)]
        ELSE IF ~ext.doc_ok THEN failed(tables1)
        ELSE IF row.kind = "topics"
             THEN \* chunk_text.strip() on the dict of the first chunk
                  IF data # <<>> THEN failed(tables2) ELSE done(tables2)
             ELSE done(store_chunks(tables2, data, document_id, ext))

\* _process_quiz_with_rag, _process_assignment_with_rag and
\* _process_topics_with_rag
process_with_rag(row, ext, at) ==
    IF ext.rag THEN process_course_file(row, ext, at)
    ELSE [row |-> IF row.kind = "quiz" THEN row
                  ELSE [row EXCEPT !.processing_error = MSG_NO_RAG],
          documents |-> documents, chunks |-> chunks,
          nodes |-> knowledge_nodes, assignments |-> assignments]

\* the request ends: the row and the tables are as the handler left them
Commit(tables) ==
    /\ files' = IF tables.row.id > Len(files)
                THEN Append(files, tables.row)
                ELSE [files EXCEPT ![tables.row.id] = tables.row]
    /\ documents' = tables.documents
    /\ chunks' = tables.chunks
    /\ knowledge_nodes' = tables.nodes
    /\ assignments' = tables.assignments
    /\ UNCHANGED <<now, _requests, log, guardVars, raceVars, query, results,
                   chatVars, chunkerVars, ingestVars, planVars, parseVars>>

\* perform_create of the three view sets
CreateFile(kind, content, ext) ==
    /\ Len(files) < MaxFiles
    /\ Commit(process_with_rag(new_file(kind, content, FALSE), ext, now))

\* the update a ModelViewSet gives a quiz or an assignment file: the file
\* is replaced and nothing is processed
UpdateFile(id, content) ==
    /\ id \in 1..Len(files)
    /\ files[id].kind # "topics"
    /\ files' = [files EXCEPT ![id].content = content]
    /\ UNCHANGED <<now, _requests, log, guardVars, raceVars, searchVars,
                   chatVars, chunkerVars, ingestVars, planVars, parseVars,
                   documents, knowledge_nodes, assignments>>

\* a variant that leaves is_processed as it was
UpdateTopic_no_reset(id, changed, content, ext) ==
    /\ id \in 1..Len(files)
    /\ files[id].kind = "topics"
    /\ files[id].runs < MaxProcessings
    /\ IF changed
       THEN Commit(process_with_rag(
                [files[id] EXCEPT !.content = content], ext, now))
       ELSE UNCHANGED vars

\* CourseTopicViewSet.perform_update; changed: the request holds
\* syllabus_text or syllabus_file
UpdateTopic(id, changed, content, ext) ==
    /\ id \in 1..Len(files)
    /\ files[id].kind = "topics"
    /\ files[id].runs < MaxProcessings
    /\ IF changed
       THEN Commit(process_with_rag(
                [files[id] EXCEPT !.content = content,
                                  !.is_processed = FALSE], ext, now))
       ELSE UNCHANGED vars

\* CourseTopicViewSet.reprocess
ReprocessTopic(id, ext) ==
    /\ id \in 1..Len(files)
    /\ files[id].kind = "topics"
    /\ files[id].runs < MaxProcessings
    /\ Commit(process_with_rag(
           [files[id] EXCEPT !.is_processed = FALSE,
                             !.processing_error = <<>>], ext, now))

\* CourseTopicItemViewSet.perform_create without a course_topic, in a
\* course that has no CourseTopic yet
CreateTopicItem ==
    /\ Len(files) < MaxFiles
    /\ \A i \in 1..Len(files) : files[i].kind # "topics"
    /\ files' = Append(files, new_file("topics", ManualText, TRUE))
    /\ UNCHANGED <<now, _requests, log, guardVars, raceVars, searchVars,
                   chatVars, chunkerVars, ingestVars, planVars, parseVars,
                   documents, knowledge_nodes, assignments>>

CourseTimes == {0, DaySeconds - 1}

InitCourse ==
    /\ now \in CourseTimes
    /\ _requests = <<>>
    /\ log = <<>>
    /\ CourseIdle
    /\ ParseIdle
    /\ ChunkerIdle
    /\ IngestIdle
    /\ PlanIdle
    /\ GuardIdle
    /\ RaceIdle
    /\ SearchIdle
    /\ ChatIdle

NextCourse ==
    \/ /\ Len(files) < MaxFiles
       /\ \E kind \in CourseKinds, content \in CourseTexts :
             \E ext \in ExternalsOf(kind) : CreateFile(kind, content, ext)
    \/ \E id \in 1..Len(files), content \in CourseTexts :
          UpdateFile(id, content)
    \/ \E id \in 1..Len(files), changed \in BOOLEAN, content \in CourseTexts,
          ext \in TopicsExternals : UpdateTopic(id, changed, content, ext)
    \/ \E id \in 1..Len(files), ext \in TopicsExternals :
          ReprocessTopic(id, ext)
    \/ CreateTopicItem

SpecCourse == InitCourse /\ [][NextCourse]_vars

(***************************************************************************)
(* Claims on the course files                                              *)
(***************************************************************************)
\* the assignment files whose details were extracted and whose Assignment
\* row the database accepts
Extracted ==
    {i \in 1..Len(files) :
        /\ files[i].kind = "assignment"
        /\ files[i].call.found
        /\ files[i].call.assignment_ok}

MissingDue(due_date) ==
    \/ due_date.type = "NoneType"
    \/ due_date.type = "str" /\ due_date.len = 0

UnparsableDue(due_date) ==
    \/ due_date.type = "int"
    \/ due_date.type = "str" /\ due_date.len > 0 /\ due_date.spells = "other"

TwoWeeksAfter(at) ==
    [day |-> (at + DefaultDueDays * DaySeconds) \div DaySeconds,
     minute |-> EndOfDay]

\* C24: when the details of an assignment file were extracted with a
\* due_date that is missing or cannot be parsed, an Assignment exists for
\* the file and its due date is the day two weeks after the processing.
C24_DueDateDefault ==
    \A i \in Extracted :
        (MissingDue(files[i].call.due_date)
            \/ UnparsableDue(files[i].call.due_date)) =>
            /\ files[i].assignment \in 1..Len(assignments)
            /\ assignments[files[i].assignment].due_date
                  = TwoWeeksAfter(files[i].call.at)

\* C25: no two KnowledgeNode rows have topics that are equal up to the case
\* of their letters.
C25_TopicsUniqueUnderCase ==
    \A a, b \in 1..Len(knowledge_nodes) :
        a # b => lower_topic(knowledge_nodes[a].topic)
                    # lower_topic(knowledge_nodes[b].topic)

\* C26: every Document of a course topic, and every chunk of such a
\* Document, comes from the latest processing run of the course topic.
C26_ReprocessReplaces ==
    \A d \in 1..Len(documents) :
        documents[d].kind = "topics" =>
            documents[d].run = files[documents[d].owner].runs

\* C30: a quiz file, assignment file or course topic that is marked as
\* processed has an empty processing_error.
C30_ProcessedHasNoError ==
    \A i \in 1..Len(files) :
        files[i].is_processed => files[i].processing_error = <<>>

\* an assignment file is marked as processed by a run in which the creation
\* of its Assignment failed and set processing_error
C30_Witness ==
    \E i \in 1..Len(files) :
        /\ files[i].is_processed
        /\ files[i].runs > 0
        /\ files[i].call.found
        /\ files[i].assignment = 0


(***************************************************************************)
(* The text in the STUDENT QUESTION slot of the prompt                     *)
(***************************************************************************)
\* C27: in a chat turn the text create_safe_prompt places in the STUDENT
\* QUESTION slot is exactly the message validate_message accepted: nothing
\* that did not pass validate_message, such as the content of a retrieved
\* chunk, is inserted there.
C27_QuestionIsValidatedMessage ==
    llm_prompt # NoResult =>
        /\ Has(req, "message")
        /\ validate_message(req.message).ok
        /\ llm_prompt.question = req.message


(***************************************************************************)
(* Claims on the end of an ingestion call                                  *)
(***************************************************************************)
IngestOver(path) == ingest.pc = "done" /\ ingest.path = path

\* C28: process_course_topics, for a syllabus of at least MinContentLen
\* characters and with the Document created, every embedding obtained and
\* every insert accepted, stores one DocumentChunk for each chunk of at
\* least MinChunkLen characters and ends with is_processed true and an
\* empty processing_error.
C28_TopicsProcessed ==
    (/\ IngestOver("topics")
     /\ ingest.data # <<>>
     /\ ingest.failed = {}
     /\ ingest.db_failed = {}) =>
        /\ owner.is_processed
        /\ owner.processing_error = <<>>
        /\ \A k \in 1..Len(ingest.data) :
              StrLen(strip(ingest.data[k].content)) >= MinChunkLen =>
                 Cardinality(RowOf(ingest.data[k])) = 1

\* C29: process_uploaded_resource is all-or-nothing: without text, or when
\* the insert of a chunk fails, it returns False and no row of the call
\* remains; it returns True only with one row for every chunk.
C29_AllOrNothing ==
    IngestOver("resource") =>
        /\ (ingest.data = <<>> \/ ingest.db_failed # {}) => ~ingest.returned
        /\ ~ingest.returned => Len(chunks) = ingest.base
        /\ ingest.returned =>
              /\ Len(chunks) = ingest.base + Len(ingest.data)
              /\ \A k \in 1..Len(ingest.data) :
                    Cardinality(RowOf(ingest.data[k])) = 1

\* the insert of a later chunk failed after an earlier chunk of the same
\* resource had been written, and no row of the call is left
C29_Witness ==
    /\ IngestOver("resource")
    /\ ingest.todo > 1
    /\ ingest.db_failed # {}
    /\ ~ingest.returned
    /\ Len(chunks) = ingest.base

====
